---- MODULE Spec2Model ----
(***************************************************************************)
(* Werkwoorden trainer: the answer normaliser, the conjugation resolver,   *)
(* the template selector and the interactive session of src/main.py, with  *)
(* the tables of src/verbs_data.py.                                        *)
(*                                                                         *)
(* Python strings are TLA+ strings (sequences of characters): Len, SubSeq  *)
(* and \o act on them as len, slicing and + do in Python.                  *)
(* A Python call is modelled by an operator that yields Ok(v) when the     *)
(* call returns v and Raise(e) when it raises the exception e.             *)
(***************************************************************************)
EXTENDS Integers, Sequences, FiniteSets, TLC

VARIABLES
  call,            \* harness: the function call under test and its arguments
  ret,             \* harness: what the call returned or raised
  ret2,            \* harness: what the follow-up call returned or raised
  pc,              \* session: position in __init__.main / run_session
  tenses,          \* session: run_session.tenses
  total,           \* session: run_session.total
  asked,           \* session: run_session.asked
  correct_count,   \* session: run_session.correct_count
  i,               \* session: loop variable of run_session
  q,               \* session: the Question of the current round
  graded,          \* session: number of answers ask_question has graded
  stdout,          \* session: what the last step printed
  rc,              \* session: exit code returned by __init__.main
  exc,             \* session: the exception a call of the session raised
  tables           \* session: the module-level tables of verbs_data.py

vars == <<call, ret, ret2, pc, tenses, total, asked, correct_count, i, q,
          graded, stdout, rc, exc, tables>>

harness_vars == <<call, ret, ret2>>
session_vars ==
  <<pc, tenses, total, asked, correct_count, i, q, graded, stdout, rc, exc,
    tables>>

-----------------------------------------------------------------------------
(* Bounds of the model *)

\* longest raw string fed to normalize_answer on its own
MaxLen == 4
\* largest number of questions asked for in one session
MaxTotal == 2
\* longest list of auxiliaries a row of the verb table declares
MaxAuxList == 2

-----------------------------------------------------------------------------
(* Python values *)

\* Python's None
None == "<None>"

Ok(v) == [kind |-> "ok", value |-> v]
Raise(e) == [kind |-> "raise", error |-> e]
Pending == [kind |-> "pending"]

-----------------------------------------------------------------------------
(* str methods and the two regular expressions of normalize_answer *)

\* characters for which str.isspace() holds, which str.strip() removes and \s matches
WHITESPACE == {" ", "\t", "\n", "\r", "\f"}
\* the character class [.,;:!?]
PUNCTUATION == {".", ",", ";", ":", "!", "?"}

UPPERCASE == "ABCDEFGHIJKLMNOPQRSTUVWXYZ"
LOWERCASE == "abcdefghijklmnopqrstuvwxyz"

Char(s, n) == SubSeq(s, n, n)
Rest(s) == SubSeq(s, 2, Len(s))
Front(s) == SubSeq(s, 1, Len(s) - 1)

RECURSIVE lstrip(_)
lstrip(s) ==
  IF Len(s) > 0 /\ Char(s, 1) \in WHITESPACE THEN lstrip(Rest(s)) ELSE s

RECURSIVE rstrip(_)
rstrip(s) ==
  IF Len(s) > 0 /\ Char(s, Len(s)) \in WHITESPACE THEN rstrip(Front(s)) ELSE s

\* str.strip()
strip(s) == rstrip(lstrip(s))

lower_char(c) ==
  IF \E n \in 1..Len(UPPERCASE) : Char(UPPERCASE, n) = c
  THEN Char(LOWERCASE, CHOOSE n \in 1..Len(UPPERCASE) : Char(UPPERCASE, n) = c)
  ELSE c

upper_char(c) ==
  IF \E n \in 1..Len(LOWERCASE) : Char(LOWERCASE, n) = c
  THEN Char(UPPERCASE, CHOOSE n \in 1..Len(LOWERCASE) : Char(LOWERCASE, n) = c)
  ELSE c

\* str.lower()
RECURSIVE lower(_)
lower(s) == IF Len(s) = 0 THEN "" ELSE lower_char(Char(s, 1)) \o lower(Rest(s))

\* str.upper()
RECURSIVE upper(_)
upper(s) == IF Len(s) = 0 THEN "" ELSE upper_char(Char(s, 1)) \o upper(Rest(s))

\* str.capitalize()
capitalize(s) == IF Len(s) = 0 THEN "" ELSE upper_char(Char(s, 1)) \o lower(Rest(s))

\* removes the run of punctuation marks that ends the string
RECURSIVE drop_punct_run(_)
drop_punct_run(s) ==
  IF Len(s) > 0 /\ Char(s, Len(s)) \in PUNCTUATION THEN drop_punct_run(Front(s)) ELSE s

\* re.sub(r"[.,;:!?]+$", "", s): $ matches at the end of the string and also
\* just before a newline that ends the string
sub_trailing_punct(s) ==
  IF Len(s) > 0 /\ Char(s, Len(s)) \in PUNCTUATION THEN drop_punct_run(s)
  ELSE IF Len(s) > 1 /\ Char(s, Len(s)) = "\n" /\ Char(s, Len(s) - 1) \in PUNCTUATION
       THEN drop_punct_run(Front(s)) \o "\n"
       ELSE s

\* re.sub(r"\s+", " ", s)
RECURSIVE sub_whitespace(_)
sub_whitespace(s) ==
  IF Len(s) = 0 THEN ""
  ELSE IF Char(s, 1) \in WHITESPACE THEN " " \o sub_whitespace(lstrip(s))
       ELSE Char(s, 1) \o sub_whitespace(Rest(s))

\* normalisation folding to upper case
normalize_answer_upper(s) == sub_whitespace(sub_trailing_punct(upper(strip(s))))

\* normalisation without the strip() of its first step
normalize_answer_unstripped(s) == sub_whitespace(sub_trailing_punct(lower(s)))

normalize_answer(s) == sub_whitespace(sub_trailing_punct(lower(strip(s))))

-----------------------------------------------------------------------------
(* The tables of verbs_data.py *)

PRONOUNS == <<"ik", "jij/je", "u", "hij/zij/het", "wij/we", "jullie", "zij/ze">>

TENSES ==
  "o.t.t." :> [label |-> "tegenwoordige tijd", is_perfect |-> FALSE,
               aux_time |-> None, example |-> "ik werk"] @@
  "o.v.t." :> [label |-> "onvoltooid verleden tijd", is_perfect |-> FALSE,
               aux_time |-> None, example |-> "ik werkte"] @@
  "v.t.t." :> [label |-> "voltooid tegenwoordige tijd", is_perfect |-> TRUE,
               aux_time |-> "o.t.t.", example |-> "ik heb gewerkt / ik ben gekomen"] @@
  "v.v.t." :> [label |-> "voltooid verleden tijd", is_perfect |-> TRUE,
               aux_time |-> "o.v.t.", example |-> "ik had gewerkt / ik was gekomen"]

AUX_CONJUGATION ==
  "hebben" :>
      ("o.t.t." :> ("ik" :> "heb" @@ "jij/je" :> "hebt" @@ "u" :> "heeft" @@ "hij/zij/het" :> "heeft" @@ "wij/we" :> "hebben" @@ "jullie" :> "hebben" @@ "zij/ze" :> "hebben") @@
       "o.v.t." :> ("ik" :> "had" @@ "jij/je" :> "had" @@ "u" :> "had" @@ "hij/zij/het" :> "had" @@ "wij/we" :> "hadden" @@ "jullie" :> "hadden" @@ "zij/ze" :> "hadden")) @@
  "zijn" :>
      ("o.t.t." :> ("ik" :> "ben" @@ "jij/je" :> "bent" @@ "u" :> "bent" @@ "hij/zij/het" :> "is" @@ "wij/we" :> "zijn" @@ "jullie" :> "zijn" @@ "zij/ze" :> "zijn") @@
       "o.v.t." :> ("ik" :> "was" @@ "jij/je" :> "was" @@ "u" :> "was" @@ "hij/zij/het" :> "was" @@ "wij/we" :> "waren" @@ "jullie" :> "waren" @@ "zij/ze" :> "waren"))

VERBS ==
  "werken" :>
     [infinitive |-> "werken", aux |-> [str |-> "hebben"],
      past_participle |-> "gewerkt",
      conjugations |->
         ("o_t_t" :> ("ik" :> "werk" @@ "jij/je" :> "werkt" @@ "u" :> "werkt" @@ "hij/zij/het" :> "werkt" @@ "wij/we" :> "werken" @@ "jullie" :> "werken" @@ "zij/ze" :> "werken") @@
          "o_v_t" :> ("ik" :> "werkte" @@ "jij/je" :> "werkte" @@ "u" :> "werkte" @@ "hij/zij/het" :> "werkte" @@ "wij/we" :> "werkten" @@ "jullie" :> "werkten" @@ "zij/ze" :> "werkten"))] @@
  "maken" :>
     [infinitive |-> "maken", aux |-> [str |-> "hebben"],
      past_participle |-> "gemaakt",
      conjugations |->
         ("o_t_t" :> ("ik" :> "maak" @@ "jij/je" :> "maakt" @@ "u" :> "maakt" @@ "hij/zij/het" :> "maakt" @@ "wij/we" :> "maken" @@ "jullie" :> "maken" @@ "zij/ze" :> "maken") @@
          "o_v_t" :> ("ik" :> "maakte" @@ "jij/je" :> "maakte" @@ "u" :> "maakte" @@ "hij/zij/het" :> "maakte" @@ "wij/we" :> "maakten" @@ "jullie" :> "maakten" @@ "zij/ze" :> "maakten"))] @@
  "spelen" :>
     [infinitive |-> "spelen", aux |-> [str |-> "hebben"],
      past_participle |-> "gespeeld",
      conjugations |->
         ("o_t_t" :> ("ik" :> "speel" @@ "jij/je" :> "speelt" @@ "u" :> "speelt" @@ "hij/zij/het" :> "speelt" @@ "wij/we" :> "spelen" @@ "jullie" :> "spelen" @@ "zij/ze" :> "spelen") @@
          "o_v_t" :> ("ik" :> "speelde" @@ "jij/je" :> "speelde" @@ "u" :> "speelde" @@ "hij/zij/het" :> "speelde" @@ "wij/we" :> "speelden" @@ "jullie" :> "speelden" @@ "zij/ze" :> "speelden"))] @@
  "leren" :>
     [infinitive |-> "leren", aux |-> [str |-> "hebben"],
      past_participle |-> "geleerd",
      conjugations |->
         ("o_t_t" :> ("ik" :> "leer" @@ "jij/je" :> "leert" @@ "u" :> "leert" @@ "hij/zij/het" :> "leert" @@ "wij/we" :> "leren" @@ "jullie" :> "leren" @@ "zij/ze" :> "leren") @@
          "o_v_t" :> ("ik" :> "leerde" @@ "jij/je" :> "leerde" @@ "u" :> "leerde" @@ "hij/zij/het" :> "leerde" @@ "wij/we" :> "leerden" @@ "jullie" :> "leerden" @@ "zij/ze" :> "leerden"))] @@
  "wonen" :>
     [infinitive |-> "wonen", aux |-> [str |-> "hebben"],
      past_participle |-> "gewoond",
      conjugations |->
         ("o_t_t" :> ("ik" :> "woon" @@ "jij/je" :> "woont" @@ "u" :> "woont" @@ "hij/zij/het" :> "woont" @@ "wij/we" :> "wonen" @@ "jullie" :> "wonen" @@ "zij/ze" :> "wonen") @@
          "o_v_t" :> ("ik" :> "woonde" @@ "jij/je" :> "woonde" @@ "u" :> "woonde" @@ "hij/zij/het" :> "woonde" @@ "wij/we" :> "woonden" @@ "jullie" :> "woonden" @@ "zij/ze" :> "woonden"))] @@
  "praten" :>
     [infinitive |-> "praten", aux |-> [str |-> "hebben"],
      past_participle |-> "gepraat",
      conjugations |->
         ("o_t_t" :> ("ik" :> "praat" @@ "jij/je" :> "praat" @@ "u" :> "praat" @@ "hij/zij/het" :> "praat" @@ "wij/we" :> "praten" @@ "jullie" :> "praten" @@ "zij/ze" :> "praten") @@
          "o_v_t" :> ("ik" :> "praatte" @@ "jij/je" :> "praatte" @@ "u" :> "praatte" @@ "hij/zij/het" :> "praatte" @@ "wij/we" :> "praatten" @@ "jullie" :> "praatten" @@ "zij/ze" :> "praatten"))] @@
  "bellen" :>
     [infinitive |-> "bellen", aux |-> [str |-> "hebben"],
      past_participle |-> "gebeld",
      conjugations |->
         ("o_t_t" :> ("ik" :> "bel" @@ "jij/je" :> "belt" @@ "u" :> "belt" @@ "hij/zij/het" :> "belt" @@ "wij/we" :> "bellen" @@ "jullie" :> "bellen" @@ "zij/ze" :> "bellen") @@
          "o_v_t" :> ("ik" :> "belde" @@ "jij/je" :> "belde" @@ "u" :> "belde" @@ "hij/zij/het" :> "belde" @@ "wij/we" :> "belden" @@ "jullie" :> "belden" @@ "zij/ze" :> "belden"))] @@
  "koken" :>
     [infinitive |-> "koken", aux |-> [str |-> "hebben"],
      past_participle |-> "gekookt",
      conjugations |->
         ("o_t_t" :> ("ik" :> "kook" @@ "jij/je" :> "kookt" @@ "u" :> "kookt" @@ "hij/zij/het" :> "kookt" @@ "wij/we" :> "koken" @@ "jullie" :> "koken" @@ "zij/ze" :> "koken") @@
          "o_v_t" :> ("ik" :> "kookte" @@ "jij/je" :> "kookte" @@ "u" :> "kookte" @@ "hij/zij/het" :> "kookte" @@ "wij/we" :> "kookten" @@ "jullie" :> "kookten" @@ "zij/ze" :> "kookten"))] @@
  "studeren" :>
     [infinitive |-> "studeren", aux |-> [str |-> "hebben"],
      past_participle |-> "gestudeerd",
      conjugations |->
         ("o_t_t" :> ("ik" :> "studeer" @@ "jij/je" :> "studeert" @@ "u" :> "studeert" @@ "hij/zij/het" :> "studeert" @@ "wij/we" :> "studeren" @@ "jullie" :> "studeren" @@ "zij/ze" :> "studeren") @@
          "o_v_t" :> ("ik" :> "studeerde" @@ "jij/je" :> "studeerde" @@ "u" :> "studeerde" @@ "hij/zij/het" :> "studeerde" @@ "wij/we" :> "studeerden" @@ "jullie" :> "studeerden" @@ "zij/ze" :> "studeerden"))] @@
  "reizen" :>
     [infinitive |-> "reizen", aux |-> [str |-> "hebben"],
      past_participle |-> "gereisd",
      conjugations |->
         ("o_t_t" :> ("ik" :> "reis" @@ "jij/je" :> "reist" @@ "u" :> "reist" @@ "hij/zij/het" :> "reist" @@ "wij/we" :> "reizen" @@ "jullie" :> "reizen" @@ "zij/ze" :> "reizen") @@
          "o_v_t" :> ("ik" :> "reisde" @@ "jij/je" :> "reisde" @@ "u" :> "reisde" @@ "hij/zij/het" :> "reisde" @@ "wij/we" :> "reisden" @@ "jullie" :> "reisden" @@ "zij/ze" :> "reisden"))] @@
  "zetten" :>
     [infinitive |-> "zetten", aux |-> [str |-> "hebben"],
      past_participle |-> "gezet",
      conjugations |->
         ("o_t_t" :> ("ik" :> "zet" @@ "jij/je" :> "zet" @@ "u" :> "zet" @@ "hij/zij/het" :> "zet" @@ "wij/we" :> "zetten" @@ "jullie" :> "zetten" @@ "zij/ze" :> "zetten") @@
          "o_v_t" :> ("ik" :> "zette" @@ "jij/je" :> "zette" @@ "u" :> "zette" @@ "hij/zij/het" :> "zette" @@ "wij/we" :> "zetten" @@ "jullie" :> "zetten" @@ "zij/ze" :> "zetten"))] @@
  "fietsen" :>
     [infinitive |-> "fietsen", aux |-> [str |-> "hebben"],
      past_participle |-> "gefietst",
      conjugations |->
         ("o_t_t" :> ("ik" :> "fiets" @@ "jij/je" :> "fietst" @@ "u" :> "fietst" @@ "hij/zij/het" :> "fietst" @@ "wij/we" :> "fietsen" @@ "jullie" :> "fietsen" @@ "zij/ze" :> "fietsen") @@
          "o_v_t" :> ("ik" :> "fietste" @@ "jij/je" :> "fietste" @@ "u" :> "fietste" @@ "hij/zij/het" :> "fietste" @@ "wij/we" :> "fietsten" @@ "jullie" :> "fietsten" @@ "zij/ze" :> "fietsten"))] @@
  "zijn" :>
     [infinitive |-> "zijn", aux |-> [str |-> "zijn"],
      past_participle |-> "geweest",
      conjugations |->
         ("o_t_t" :> ("ik" :> "ben" @@ "jij/je" :> "bent" @@ "u" :> "bent" @@ "hij/zij/het" :> "is" @@ "wij/we" :> "zijn" @@ "jullie" :> "zijn" @@ "zij/ze" :> "zijn") @@
          "o_v_t" :> ("ik" :> "was" @@ "jij/je" :> "was" @@ "u" :> "was" @@ "hij/zij/het" :> "was" @@ "wij/we" :> "waren" @@ "jullie" :> "waren" @@ "zij/ze" :> "waren"))] @@
  "hebben" :>
     [infinitive |-> "hebben", aux |-> [str |-> "hebben"],
      past_participle |-> "gehad",
      conjugations |->
         AUX_CONJUGATION["hebben"]] @@
  "gaan" :>
     [infinitive |-> "gaan", aux |-> [str |-> "zijn"],
      past_participle |-> "gegaan",
      conjugations |->
         ("o_t_t" :> ("ik" :> "ga" @@ "jij/je" :> "gaat" @@ "u" :> "gaat" @@ "hij/zij/het" :> "gaat" @@ "wij/we" :> "gaan" @@ "jullie" :> "gaan" @@ "zij/ze" :> "gaan") @@
          "o_v_t" :> ("ik" :> "ging" @@ "jij/je" :> "ging" @@ "u" :> "ging" @@ "hij/zij/het" :> "ging" @@ "wij/we" :> "gingen" @@ "jullie" :> "gingen" @@ "zij/ze" :> "gingen"))] @@
  "komen" :>
     [infinitive |-> "komen", aux |-> [str |-> "zijn"],
      past_participle |-> "gekomen",
      conjugations |->
         ("o_t_t" :> ("ik" :> "kom" @@ "jij/je" :> "komt" @@ "u" :> "komt" @@ "hij/zij/het" :> "komt" @@ "wij/we" :> "komen" @@ "jullie" :> "komen" @@ "zij/ze" :> "komen") @@
          "o_v_t" :> ("ik" :> "kwam" @@ "jij/je" :> "kwam" @@ "u" :> "kwam" @@ "hij/zij/het" :> "kwam" @@ "wij/we" :> "kwamen" @@ "jullie" :> "kwamen" @@ "zij/ze" :> "kwamen"))] @@
  "blijven" :>
     [infinitive |-> "blijven", aux |-> [str |-> "zijn"],
      past_participle |-> "gebleven",
      conjugations |->
         ("o_t_t" :> ("ik" :> "blijf" @@ "jij/je" :> "blijft" @@ "u" :> "blijft" @@ "hij/zij/het" :> "blijft" @@ "wij/we" :> "blijven" @@ "jullie" :> "blijven" @@ "zij/ze" :> "blijven") @@
          "o_v_t" :> ("ik" :> "bleef" @@ "jij/je" :> "bleef" @@ "u" :> "bleef" @@ "hij/zij/het" :> "bleef" @@ "wij/we" :> "bleven" @@ "jullie" :> "bleven" @@ "zij/ze" :> "bleven"))] @@
  "worden" :>
     [infinitive |-> "worden", aux |-> [str |-> "zijn"],
      past_participle |-> "geworden",
      conjugations |->
         ("o_t_t" :> ("ik" :> "word" @@ "jij/je" :> "wordt" @@ "u" :> "wordt" @@ "hij/zij/het" :> "wordt" @@ "wij/we" :> "worden" @@ "jullie" :> "worden" @@ "zij/ze" :> "worden") @@
          "o_v_t" :> ("ik" :> "werd" @@ "jij/je" :> "werd" @@ "u" :> "werd" @@ "hij/zij/het" :> "werd" @@ "wij/we" :> "werden" @@ "jullie" :> "werden" @@ "zij/ze" :> "werden"))] @@
  "vallen" :>
     [infinitive |-> "vallen", aux |-> [str |-> "zijn"],
      past_participle |-> "gevallen",
      conjugations |->
         ("o_t_t" :> ("ik" :> "val" @@ "jij/je" :> "valt" @@ "u" :> "valt" @@ "hij/zij/het" :> "valt" @@ "wij/we" :> "vallen" @@ "jullie" :> "vallen" @@ "zij/ze" :> "vallen") @@
          "o_v_t" :> ("ik" :> "viel" @@ "jij/je" :> "viel" @@ "u" :> "viel" @@ "hij/zij/het" :> "viel" @@ "wij/we" :> "vielen" @@ "jullie" :> "vielen" @@ "zij/ze" :> "vielen"))] @@
  "beginnen" :>
     [infinitive |-> "beginnen", aux |-> [str |-> "zijn"],
      past_participle |-> "begonnen",
      conjugations |->
         ("o_t_t" :> ("ik" :> "begin" @@ "jij/je" :> "begint" @@ "u" :> "begint" @@ "hij/zij/het" :> "begint" @@ "wij/we" :> "beginnen" @@ "jullie" :> "beginnen" @@ "zij/ze" :> "beginnen") @@
          "o_v_t" :> ("ik" :> "begon" @@ "jij/je" :> "begon" @@ "u" :> "begon" @@ "hij/zij/het" :> "begon" @@ "wij/we" :> "begonnen" @@ "jullie" :> "begonnen" @@ "zij/ze" :> "begonnen"))] @@
  "lopen" :>
     [infinitive |-> "lopen", aux |-> [list |-> <<"hebben", "zijn">>],
      past_participle |-> "gelopen",
      conjugations |->
         ("o_t_t" :> ("ik" :> "loop" @@ "jij/je" :> "loopt" @@ "u" :> "loopt" @@ "hij/zij/het" :> "loopt" @@ "wij/we" :> "lopen" @@ "jullie" :> "lopen" @@ "zij/ze" :> "lopen") @@
          "o_v_t" :> ("ik" :> "liep" @@ "jij/je" :> "liep" @@ "u" :> "liep" @@ "hij/zij/het" :> "liep" @@ "wij/we" :> "liepen" @@ "jullie" :> "liepen" @@ "zij/ze" :> "liepen"))] @@
  "rijden" :>
     [infinitive |-> "rijden", aux |-> [list |-> <<"hebben", "zijn">>],
      past_participle |-> "gereden",
      conjugations |->
         ("o_t_t" :> ("ik" :> "rijd" @@ "jij/je" :> "rijdt" @@ "u" :> "rijdt" @@ "hij/zij/het" :> "rijdt" @@ "wij/we" :> "rijden" @@ "jullie" :> "rijden" @@ "zij/ze" :> "rijden") @@
          "o_v_t" :> ("ik" :> "reed" @@ "jij/je" :> "reed" @@ "u" :> "reed" @@ "hij/zij/het" :> "reed" @@ "wij/we" :> "reden" @@ "jullie" :> "reden" @@ "zij/ze" :> "reden"))] @@
  "kijken" :>
     [infinitive |-> "kijken", aux |-> [str |-> "hebben"],
      past_participle |-> "gekeken",
      conjugations |->
         ("o_t_t" :> ("ik" :> "kijk" @@ "jij/je" :> "kijkt" @@ "u" :> "kijkt" @@ "hij/zij/het" :> "kijkt" @@ "wij/we" :> "kijken" @@ "jullie" :> "kijken" @@ "zij/ze" :> "kijken") @@
          "o_v_t" :> ("ik" :> "keek" @@ "jij/je" :> "keek" @@ "u" :> "keek" @@ "hij/zij/het" :> "keek" @@ "wij/we" :> "keken" @@ "jullie" :> "keken" @@ "zij/ze" :> "keken"))] @@
  "kopen" :>
     [infinitive |-> "kopen", aux |-> [str |-> "hebben"],
      past_participle |-> "gekocht",
      conjugations |->
         ("o_t_t" :> ("ik" :> "koop" @@ "jij/je" :> "koopt" @@ "u" :> "koopt" @@ "hij/zij/het" :> "koopt" @@ "wij/we" :> "kopen" @@ "jullie" :> "kopen" @@ "zij/ze" :> "kopen") @@
          "o_v_t" :> ("ik" :> "kocht" @@ "jij/je" :> "kocht" @@ "u" :> "kocht" @@ "hij/zij/het" :> "kocht" @@ "wij/we" :> "kochten" @@ "jullie" :> "kochten" @@ "zij/ze" :> "kochten"))] @@
  "denken" :>
     [infinitive |-> "denken", aux |-> [str |-> "hebben"],
      past_participle |-> "gedacht",
      conjugations |->
         ("o_t_t" :> ("ik" :> "denk" @@ "jij/je" :> "denkt" @@ "u" :> "denkt" @@ "hij/zij/het" :> "denkt" @@ "wij/we" :> "denken" @@ "jullie" :> "denken" @@ "zij/ze" :> "denken") @@
          "o_v_t" :> ("ik" :> "dacht" @@ "jij/je" :> "dacht" @@ "u" :> "dacht" @@ "hij/zij/het" :> "dacht" @@ "wij/we" :> "dachten" @@ "jullie" :> "dachten" @@ "zij/ze" :> "dachten"))] @@
  "geven" :>
     [infinitive |-> "geven", aux |-> [str |-> "hebben"],
      past_participle |-> "gegeven",
      conjugations |->
         ("o_t_t" :> ("ik" :> "geef" @@ "jij/je" :> "geeft" @@ "u" :> "geeft" @@ "hij/zij/het" :> "geeft" @@ "wij/we" :> "geven" @@ "jullie" :> "geven" @@ "zij/ze" :> "geven") @@
          "o_v_t" :> ("ik" :> "gaf" @@ "jij/je" :> "gaf" @@ "u" :> "gaf" @@ "hij/zij/het" :> "gaf" @@ "wij/we" :> "gaven" @@ "jullie" :> "gaven" @@ "zij/ze" :> "gaven"))] @@
  "zien" :>
     [infinitive |-> "zien", aux |-> [str |-> "hebben"],
      past_participle |-> "gezien",
      conjugations |->
         ("o_t_t" :> ("ik" :> "zie" @@ "jij/je" :> "ziet" @@ "u" :> "ziet" @@ "hij/zij/het" :> "ziet" @@ "wij/we" :> "zien" @@ "jullie" :> "zien" @@ "zij/ze" :> "zien") @@
          "o_v_t" :> ("ik" :> "zag" @@ "jij/je" :> "zag" @@ "u" :> "zag" @@ "hij/zij/het" :> "zag" @@ "wij/we" :> "zagen" @@ "jullie" :> "zagen" @@ "zij/ze" :> "zagen"))] @@
  "vinden" :>
     [infinitive |-> "vinden", aux |-> [str |-> "hebben"],
      past_participle |-> "gevonden",
      conjugations |->
         ("o_t_t" :> ("ik" :> "vind" @@ "jij/je" :> "vindt" @@ "u" :> "vindt" @@ "hij/zij/het" :> "vindt" @@ "wij/we" :> "vinden" @@ "jullie" :> "vinden" @@ "zij/ze" :> "vinden") @@
          "o_v_t" :> ("ik" :> "vond" @@ "jij/je" :> "vond" @@ "u" :> "vond" @@ "hij/zij/het" :> "vond" @@ "wij/we" :> "vonden" @@ "jullie" :> "vonden" @@ "zij/ze" :> "vonden"))] @@
  "weten" :>
     [infinitive |-> "weten", aux |-> [str |-> "hebben"],
      past_participle |-> "geweten",
      conjugations |->
         ("o_t_t" :> ("ik" :> "weet" @@ "jij/je" :> "weet" @@ "u" :> "weet" @@ "hij/zij/het" :> "weet" @@ "wij/we" :> "weten" @@ "jullie" :> "weten" @@ "zij/ze" :> "weten") @@
          "o_v_t" :> ("ik" :> "wist" @@ "jij/je" :> "wist" @@ "u" :> "wist" @@ "hij/zij/het" :> "wist" @@ "wij/we" :> "wisten" @@ "jullie" :> "wisten" @@ "zij/ze" :> "wisten"))] @@
  "nemen" :>
     [infinitive |-> "nemen", aux |-> [str |-> "hebben"],
      past_participle |-> "genomen",
      conjugations |->
         ("o_t_t" :> ("ik" :> "neem" @@ "jij/je" :> "neemt" @@ "u" :> "neemt" @@ "hij/zij/het" :> "neemt" @@ "wij/we" :> "nemen" @@ "jullie" :> "nemen" @@ "zij/ze" :> "nemen") @@
          "o_v_t" :> ("ik" :> "nam" @@ "jij/je" :> "nam" @@ "u" :> "nam" @@ "hij/zij/het" :> "nam" @@ "wij/we" :> "namen" @@ "jullie" :> "namen" @@ "zij/ze" :> "namen"))] @@
  "drinken" :>
     [infinitive |-> "drinken", aux |-> [str |-> "hebben"],
      past_participle |-> "gedronken",
      conjugations |->
         ("o_t_t" :> ("ik" :> "drink" @@ "jij/je" :> "drinkt" @@ "u" :> "drinkt" @@ "hij/zij/het" :> "drinkt" @@ "wij/we" :> "drinken" @@ "jullie" :> "drinken" @@ "zij/ze" :> "drinken") @@
          "o_v_t" :> ("ik" :> "dronk" @@ "jij/je" :> "dronk" @@ "u" :> "dronk" @@ "hij/zij/het" :> "dronk" @@ "wij/we" :> "dronken" @@ "jullie" :> "dronken" @@ "zij/ze" :> "dronken"))] @@
  "slapen" :>
     [infinitive |-> "slapen", aux |-> [str |-> "hebben"],
      past_participle |-> "geslapen",
      conjugations |->
         ("o_t_t" :> ("ik" :> "slaap" @@ "jij/je" :> "slaapt" @@ "u" :> "slaapt" @@ "hij/zij/het" :> "slaapt" @@ "wij/we" :> "slapen" @@ "jullie" :> "slapen" @@ "zij/ze" :> "slapen") @@
          "o_v_t" :> ("ik" :> "sliep" @@ "jij/je" :> "sliep" @@ "u" :> "sliep" @@ "hij/zij/het" :> "sliep" @@ "wij/we" :> "sliepen" @@ "jullie" :> "sliepen" @@ "zij/ze" :> "sliepen"))] @@
  "houden" :>
     [infinitive |-> "houden", aux |-> [str |-> "hebben"],
      past_participle |-> "gehouden",
      conjugations |->
         ("o_t_t" :> ("ik" :> "houd" @@ "jij/je" :> "houdt" @@ "u" :> "houdt" @@ "hij/zij/het" :> "houdt" @@ "wij/we" :> "houden" @@ "jullie" :> "houden" @@ "zij/ze" :> "houden") @@
          "o_v_t" :> ("ik" :> "hield" @@ "jij/je" :> "hield" @@ "u" :> "hield" @@ "hij/zij/het" :> "hield" @@ "wij/we" :> "hielden" @@ "jullie" :> "hielden" @@ "zij/ze" :> "hielden"))] @@
  "staan" :>
     [infinitive |-> "staan", aux |-> [str |-> "hebben"],
      past_participle |-> "gestaan",
      conjugations |->
         ("o_t_t" :> ("ik" :> "sta" @@ "jij/je" :> "staat" @@ "u" :> "staat" @@ "hij/zij/het" :> "staat" @@ "wij/we" :> "staan" @@ "jullie" :> "staan" @@ "zij/ze" :> "staan") @@
          "o_v_t" :> ("ik" :> "stond" @@ "jij/je" :> "stond" @@ "u" :> "stond" @@ "hij/zij/het" :> "stond" @@ "wij/we" :> "stonden" @@ "jullie" :> "stonden" @@ "zij/ze" :> "stonden"))] @@
  "lezen" :>
     [infinitive |-> "lezen", aux |-> [str |-> "hebben"],
      past_participle |-> "gelezen",
      conjugations |->
         ("o_t_t" :> ("ik" :> "lees" @@ "jij/je" :> "leest" @@ "u" :> "leest" @@ "hij/zij/het" :> "leest" @@ "wij/we" :> "lezen" @@ "jullie" :> "lezen" @@ "zij/ze" :> "lezen") @@
          "o_v_t" :> ("ik" :> "las" @@ "jij/je" :> "las" @@ "u" :> "las" @@ "hij/zij/het" :> "las" @@ "wij/we" :> "lazen" @@ "jullie" :> "lazen" @@ "zij/ze" :> "lazen"))] @@
  "schrijven" :>
     [infinitive |-> "schrijven", aux |-> [str |-> "hebben"],
      past_participle |-> "geschreven",
      conjugations |->
         ("o_t_t" :> ("ik" :> "schrijf" @@ "jij/je" :> "schrijft" @@ "u" :> "schrijft" @@ "hij/zij/het" :> "schrijft" @@ "wij/we" :> "schrijven" @@ "jullie" :> "schrijven" @@ "zij/ze" :> "schrijven") @@
          "o_v_t" :> ("ik" :> "schreef" @@ "jij/je" :> "schreef" @@ "u" :> "schreef" @@ "hij/zij/het" :> "schreef" @@ "wij/we" :> "schreven" @@ "jullie" :> "schreven" @@ "zij/ze" :> "schreven"))] @@
  "spreken" :>
     [infinitive |-> "spreken", aux |-> [str |-> "hebben"],
      past_participle |-> "gesproken",
      conjugations |->
         ("o_t_t" :> ("ik" :> "spreek" @@ "jij/je" :> "spreekt" @@ "u" :> "spreekt" @@ "hij/zij/het" :> "spreekt" @@ "wij/we" :> "spreken" @@ "jullie" :> "spreken" @@ "zij/ze" :> "spreken") @@
          "o_v_t" :> ("ik" :> "sprak" @@ "jij/je" :> "sprak" @@ "u" :> "sprak" @@ "hij/zij/het" :> "sprak" @@ "wij/we" :> "spraken" @@ "jullie" :> "spraken" @@ "zij/ze" :> "spraken"))] @@
  "doen" :>
     [infinitive |-> "doen", aux |-> [str |-> "hebben"],
      past_participle |-> "gedaan",
      conjugations |->
         ("o_t_t" :> ("ik" :> "doe" @@ "jij/je" :> "doet" @@ "u" :> "doet" @@ "hij/zij/het" :> "doet" @@ "wij/we" :> "doen" @@ "jullie" :> "doen" @@ "zij/ze" :> "doen") @@
          "o_v_t" :> ("ik" :> "deed" @@ "jij/je" :> "deed" @@ "u" :> "deed" @@ "hij/zij/het" :> "deed" @@ "wij/we" :> "deden" @@ "jullie" :> "deden" @@ "zij/ze" :> "deden"))] @@
  "eten" :>
     [infinitive |-> "eten", aux |-> [str |-> "hebben"],
      past_participle |-> "gegeten",
      conjugations |->
         ("o_t_t" :> ("ik" :> "eet" @@ "jij/je" :> "eet" @@ "u" :> "eet" @@ "hij/zij/het" :> "eet" @@ "wij/we" :> "eten" @@ "jullie" :> "eten" @@ "zij/ze" :> "eten") @@
          "o_v_t" :> ("ik" :> "at" @@ "jij/je" :> "at" @@ "u" :> "at" @@ "hij/zij/het" :> "at" @@ "wij/we" :> "aten" @@ "jullie" :> "aten" @@ "zij/ze" :> "aten"))] @@
  "helpen" :>
     [infinitive |-> "helpen", aux |-> [str |-> "hebben"],
      past_participle |-> "geholpen",
      conjugations |->
         ("o_t_t" :> ("ik" :> "help" @@ "jij/je" :> "helpt" @@ "u" :> "helpt" @@ "hij/zij/het" :> "helpt" @@ "wij/we" :> "helpen" @@ "jullie" :> "helpen" @@ "zij/ze" :> "helpen") @@
          "o_v_t" :> ("ik" :> "hielp" @@ "jij/je" :> "hielp" @@ "u" :> "hielp" @@ "hij/zij/het" :> "hielp" @@ "wij/we" :> "hielpen" @@ "jullie" :> "hielpen" @@ "zij/ze" :> "hielpen"))] @@
  "opstaan" :>
     [infinitive |-> "opstaan", aux |-> [str |-> "zijn"],
      past_participle |-> "opgestaan",
      conjugations |->
         ("o_t_t" :> ("ik" :> "sta" @@ "jij/je" :> "staat" @@ "u" :> "staat" @@ "hij/zij/het" :> "staat" @@ "wij/we" :> "staan" @@ "jullie" :> "staan" @@ "zij/ze" :> "staan") @@
          "o_v_t" :> ("ik" :> "stond" @@ "jij/je" :> "stond" @@ "u" :> "stond" @@ "hij/zij/het" :> "stond" @@ "wij/we" :> "stonden" @@ "jullie" :> "stonden" @@ "zij/ze" :> "stonden"))] @@
  "afwassen" :>
     [infinitive |-> "afwassen", aux |-> [str |-> "hebben"],
      past_participle |-> "afgewassen",
      conjugations |->
         ("o_t_t" :> ("ik" :> "was" @@ "jij/je" :> "wast" @@ "u" :> "wast" @@ "hij/zij/het" :> "wast" @@ "wij/we" :> "wassen" @@ "jullie" :> "wassen" @@ "zij/ze" :> "wassen") @@
          "o_v_t" :> ("ik" :> "waste" @@ "jij/je" :> "waste" @@ "u" :> "waste" @@ "hij/zij/het" :> "waste" @@ "wij/we" :> "wasten" @@ "jullie" :> "wasten" @@ "zij/ze" :> "wasten"))] @@
  "opbellen" :>
     [infinitive |-> "opbellen", aux |-> [str |-> "hebben"],
      past_participle |-> "opgebeld",
      conjugations |->
         ("o_t_t" :> ("ik" :> "bel" @@ "jij/je" :> "belt" @@ "u" :> "belt" @@ "hij/zij/het" :> "belt" @@ "wij/we" :> "bellen" @@ "jullie" :> "bellen" @@ "zij/ze" :> "bellen") @@
          "o_v_t" :> ("ik" :> "belde" @@ "jij/je" :> "belde" @@ "u" :> "belde" @@ "hij/zij/het" :> "belde" @@ "wij/we" :> "belden" @@ "jullie" :> "belden" @@ "zij/ze" :> "belden"))] @@
  "terugkomen" :>
     [infinitive |-> "terugkomen", aux |-> [str |-> "zijn"],
      past_participle |-> "teruggekomen",
      conjugations |->
         ("o_t_t" :> ("ik" :> "kom" @@ "jij/je" :> "komt" @@ "u" :> "komt" @@ "hij/zij/het" :> "komt" @@ "wij/we" :> "komen" @@ "jullie" :> "komen" @@ "zij/ze" :> "komen") @@
          "o_v_t" :> ("ik" :> "kwam" @@ "jij/je" :> "kwam" @@ "u" :> "kwam" @@ "hij/zij/het" :> "kwam" @@ "wij/we" :> "kwamen" @@ "jullie" :> "kwamen" @@ "zij/ze" :> "kwamen"))] @@
  "meenemen" :>
     [infinitive |-> "meenemen", aux |-> [str |-> "hebben"],
      past_participle |-> "meegenomen",
      conjugations |->
         ("o_t_t" :> ("ik" :> "neem" @@ "jij/je" :> "neemt" @@ "u" :> "neemt" @@ "hij/zij/het" :> "neemt" @@ "wij/we" :> "nemen" @@ "jullie" :> "nemen" @@ "zij/ze" :> "nemen") @@
          "o_v_t" :> ("ik" :> "nam" @@ "jij/je" :> "nam" @@ "u" :> "nam" @@ "hij/zij/het" :> "nam" @@ "wij/we" :> "namen" @@ "jullie" :> "namen" @@ "zij/ze" :> "namen"))] @@
  "meebrengen" :>
     [infinitive |-> "meebrengen", aux |-> [str |-> "hebben"],
      past_participle |-> "meegebracht",
      conjugations |->
         ("o_t_t" :> ("ik" :> "breng" @@ "jij/je" :> "brengt" @@ "u" :> "brengt" @@ "hij/zij/het" :> "brengt" @@ "wij/we" :> "brengen" @@ "jullie" :> "brengen" @@ "zij/ze" :> "brengen") @@
          "o_v_t" :> ("ik" :> "bracht" @@ "jij/je" :> "bracht" @@ "u" :> "bracht" @@ "hij/zij/het" :> "bracht" @@ "wij/we" :> "brachten" @@ "jullie" :> "brachten" @@ "zij/ze" :> "brachten"))]

SENTENCE_TEMPLATES ==
  << [id |-> "ott_1", template |-> "Ik ____ elke dag om acht uur.",
      tense |-> "o.t.t.", pronoun |-> "ik",
      allowed_verbs |-> <<"opstaan">>, hint |-> "o.t.t."],
     [id |-> "ott_1b", template |-> "Ik ____ elke dag om acht uur op.",
      tense |-> "o.t.t.", pronoun |-> "ik",
      allowed_verbs |-> <<"opstaan">>, hint |-> "o.t.t."],
     [id |-> "ott_2", template |-> "Hij ____ in Amsterdam.",
      tense |-> "o.t.t.", pronoun |-> "hij/zij/het",
      allowed_verbs |-> <<"wonen">>, hint |-> "o.t.t."],
     [id |-> "ott_3", template |-> "Wij ____ Nederlands in de avond.",
      tense |-> "o.t.t.", pronoun |-> "wij/we",
      allowed_verbs |-> <<"leren", "studeren">>, hint |-> "o.t.t."],
     [id |-> "ott_4", template |-> "Zij ____ elke vrijdag voetbal.",
      tense |-> "o.t.t.", pronoun |-> "zij/ze",
      allowed_verbs |-> <<"spelen">>, hint |-> "o.t.t."],
     [id |-> "ott_5", template |-> "Jullie ____ vaak naar films.",
      tense |-> "o.t.t.", pronoun |-> "jullie",
      allowed_verbs |-> <<"kijken">>, hint |-> "o.t.t."],
     [id |-> "ott_6", template |-> "U ____ de afwas.",
      tense |-> "o.t.t.", pronoun |-> "u",
      allowed_verbs |-> <<"doen", "afwassen">>, hint |-> "o.t.t."],
     [id |-> "ott_6b", template |-> "U ____ de afwas af.",
      tense |-> "o.t.t.", pronoun |-> "u",
      allowed_verbs |-> <<"afwassen">>, hint |-> "o.t.t."],
     [id |-> "ott_7", template |-> "Jij ____ koffie in de ochtend.",
      tense |-> "o.t.t.", pronoun |-> "jij/je",
      allowed_verbs |-> <<"drinken", "maken">>, hint |-> "o.t.t."],
     [id |-> "ott_8", template |-> "Ik ____ in een ziekenhuis.",
      tense |-> "o.t.t.", pronoun |-> "ik",
      allowed_verbs |-> <<"werken">>, hint |-> "o.t.t."],
     [id |-> "ott_9", template |-> "Hij ____ snel naar het station.",
      tense |-> "o.t.t.", pronoun |-> "hij/zij/het",
      allowed_verbs |-> <<"lopen", "rijden", "gaan", "fietsen">>, hint |-> "o.t.t."],
     [id |-> "ott_10", template |-> "Wij ____ het boek samen.",
      tense |-> "o.t.t.", pronoun |-> "wij/we",
      allowed_verbs |-> <<"lezen">>, hint |-> "o.t.t."],
     [id |-> "ott_11", template |-> "Zij ____ elke dag om zes uur.",
      tense |-> "o.t.t.", pronoun |-> "zij/ze",
      allowed_verbs |-> <<"komen", "opstaan">>, hint |-> "o.t.t."],
     [id |-> "ott_12", template |-> "Ik ____ mijn vrienden in het weekend.",
      tense |-> "o.t.t.", pronoun |-> "ik",
      allowed_verbs |-> <<"bellen", "opbellen", "bellen">>, hint |-> "o.t.t."],
     [id |-> "ott_13", template |-> "Jullie ____ altijd op tijd.",
      tense |-> "o.t.t.", pronoun |-> "jullie",
      allowed_verbs |-> <<"komen", "zijn">>, hint |-> "o.t.t."],
     [id |-> "ovt_1", template |-> "Gisteren ____ ik naar het park.",
      tense |-> "o.v.t.", pronoun |-> "ik",
      allowed_verbs |-> <<"lopen", "gaan", "fietsen", "rijden">>, hint |-> "o.v.t."],
     [id |-> "ovt_2", template |-> "Vorige week ____ hij een auto.",
      tense |-> "o.v.t.", pronoun |-> "hij/zij/het",
      allowed_verbs |-> <<"kopen", "kopen">>, hint |-> "o.v.t."],
     [id |-> "ovt_3", template |-> "Toen ____ wij in Utrecht.",
      tense |-> "o.v.t.", pronoun |-> "wij/we",
      allowed_verbs |-> <<"wonen">>, hint |-> "o.v.t."],
     [id |-> "ovt_4", template |-> "Gisteren ____ jullie de afwas.",
      tense |-> "o.v.t.", pronoun |-> "jullie",
      allowed_verbs |-> <<"doen", "afwassen">>, hint |-> "o.v.t."],
     [id |-> "ovt_4b", template |-> "Gisteren ____ jullie de afwas af.",
      tense |-> "o.v.t.", pronoun |-> "jullie",
      allowed_verbs |-> <<"afwassen">>, hint |-> "o.v.t."],
     [id |-> "ovt_5", template |-> "Vorig jaar ____ zij naar Nederland.",
      tense |-> "o.v.t.", pronoun |-> "zij/ze",
      allowed_verbs |-> <<"komen", "komen">>, hint |-> "o.v.t."],
     [id |-> "ovt_6", template |-> "Eerder ____ ik weinig Nederlands.",
      tense |-> "o.v.t.", pronoun |-> "ik",
      allowed_verbs |-> <<"weten", "spreken", "spreken">>, hint |-> "o.v.t."],
     [id |-> "ovt_7", template |-> "Vanochtend ____ hij vroeg op.",
      tense |-> "o.v.t.", pronoun |-> "hij/zij/het",
      allowed_verbs |-> <<"opstaan">>, hint |-> "o.v.t."],
     [id |-> "ovt_8", template |-> "Gisteravond ____ we tot laat door.",
      tense |-> "o.v.t.", pronoun |-> "wij/we",
      allowed_verbs |-> <<"werken", "studeren">>, hint |-> "o.v.t."],
     [id |-> "vtt_1", template |-> "Ik ____ al ontbeten.",
      tense |-> "v.t.t.", pronoun |-> "ik",
      allowed_verbs |-> <<"eten">>, hint |-> "v.t.t."],
     [id |-> "vtt_2", template |-> "Hij ____ het boek gelezen.",
      tense |-> "v.t.t.", pronoun |-> "hij/zij/het",
      allowed_verbs |-> <<"lezen">>, hint |-> "v.t.t."],
     [id |-> "vtt_3", template |-> "Wij ____ gisteren een film gekeken.",
      tense |-> "v.t.t.", pronoun |-> "wij/we",
      allowed_verbs |-> <<"kijken">>, hint |-> "v.t.t."],
     [id |-> "vtt_4", template |-> "Zij ____ met de auto naar huis gereden.",
      tense |-> "v.t.t.", pronoun |-> "zij/ze",
      allowed_verbs |-> <<"rijden">>, hint |-> "v.t.t."],
     [id |-> "vtt_5", template |-> "Jullie ____ de bloemen gekocht.",
      tense |-> "v.t.t.", pronoun |-> "jullie",
      allowed_verbs |-> <<"kopen">>, hint |-> "v.t.t."],
     [id |-> "vtt_6", template |-> "U ____ alles zelf gedaan.",
      tense |-> "v.t.t.", pronoun |-> "u",
      allowed_verbs |-> <<"doen">>, hint |-> "v.t.t."],
     [id |-> "vtt_7", template |-> "Hij ____ te laat gekomen.",
      tense |-> "v.t.t.", pronoun |-> "hij/zij/het",
      allowed_verbs |-> <<"komen">>, hint |-> "v.t.t."],
     [id |-> "vtt_8", template |-> "Ik ____ om zeven uur opgestaan.",
      tense |-> "v.t.t.", pronoun |-> "ik",
      allowed_verbs |-> <<"opstaan">>, hint |-> "v.t.t."],
     [id |-> "vtt_9", template |-> "Wij ____ het pakket meegebracht.",
      tense |-> "v.t.t.", pronoun |-> "wij/we",
      allowed_verbs |-> <<"meebrengen">>, hint |-> "v.t.t."],
     [id |-> "vtt_10", template |-> "Zij ____ de tassen meegenomen.",
      tense |-> "v.t.t.", pronoun |-> "zij/ze",
      allowed_verbs |-> <<"meenemen">>, hint |-> "v.t.t."],
     [id |-> "vvt_1", template |-> "Toen ik aankwam, ____ hij al gegeten.",
      tense |-> "v.v.t.", pronoun |-> "hij/zij/het",
      allowed_verbs |-> <<"eten">>, hint |-> "v.v.t."],
     [id |-> "vvt_2", template |-> "Wij ____ het werk al gedaan voordat hij kwam.",
      tense |-> "v.v.t.", pronoun |-> "wij/we",
      allowed_verbs |-> <<"doen">>, hint |-> "v.v.t."],
     [id |-> "vvt_3", template |-> "Zij ____ al naar buiten gegaan toen het regende.",
      tense |-> "v.v.t.", pronoun |-> "zij/ze",
      allowed_verbs |-> <<"gaan">>, hint |-> "v.v.t."],
     [id |-> "vvt_4", template |-> "Ik ____ mijn telefoon niet meegenomen.",
      tense |-> "v.v.t.", pronoun |-> "ik",
      allowed_verbs |-> <<"meenemen">>, hint |-> "v.v.t."],
     [id |-> "vvt_5", template |-> "Jullie ____ het huiswerk al gemaakt.",
      tense |-> "v.v.t.", pronoun |-> "jullie",
      allowed_verbs |-> <<"maken">>, hint |-> "v.v.t."],
     [id |-> "vvt_6", template |-> "Hij ____ te lang gebleven.",
      tense |-> "v.v.t.", pronoun |-> "hij/zij/het",
      allowed_verbs |-> <<"blijven">>, hint |-> "v.v.t."],
     [id |-> "vvt_7", template |-> "We ____ hem al opgebeld voordat we vertrokken.",
      tense |-> "v.v.t.", pronoun |-> "wij/we",
      allowed_verbs |-> <<"opbellen">>, hint |-> "v.v.t."],
     [id |-> "vvt_8", template |-> "Zij ____ net teruggekomen toen de bel ging.",
      tense |-> "v.v.t.", pronoun |-> "zij/ze",
      allowed_verbs |-> <<"terugkomen">>, hint |-> "v.v.t."] >>
\* a key list that lost every verb after the first
VERBS_KEYS_first_only == <<"werken">>

\* list(VERBS.keys()): the infinitives in the order the table declares them
VERBS_KEYS ==
  <<"werken", "maken", "spelen", "leren", "wonen", "praten", "bellen",
    "koken", "studeren", "reizen", "zetten", "fietsen", "zijn", "hebben",
    "gaan", "komen", "blijven", "worden", "vallen", "beginnen", "lopen",
    "rijden", "kijken", "kopen", "denken", "geven", "zien", "vinden",
    "weten", "nemen", "drinken", "slapen", "houden", "staan", "lezen",
    "schrijven", "spreken", "doen", "eten", "helpen", "opstaan", "afwassen",
    "opbellen", "terugkomen", "meenemen", "meebrengen">>

\* sorted(VERBS.keys())
ALL_VERBS ==
  <<"afwassen", "beginnen", "bellen", "blijven", "denken", "doen", "drinken",
    "eten", "fietsen", "gaan", "geven", "hebben", "helpen", "houden",
    "kijken", "koken", "komen", "kopen", "leren", "lezen", "lopen", "maken",
    "meebrengen", "meenemen", "nemen", "opbellen", "opstaan", "praten",
    "reizen", "rijden", "schrijven", "slapen", "spelen", "spreken", "staan",
    "studeren", "terugkomen", "vallen", "vinden", "werken", "weten", "wonen",
    "worden", "zetten", "zien", "zijn">>

-----------------------------------------------------------------------------
(* Conjugation resolver (verbs_data.py) *)

SIMPLE_TENSES == {"o.t.t.", "o.v.t."}
PERFECT_TENSES == {"v.t.t.", "v.v.t."}
TENSE_CODES == SIMPLE_TENSES \cup PERFECT_TENSES
PronounSet == {PRONOUNS[n] : n \in 1..Len(PRONOUNS)}
AUXILIARIES == {"hebben", "zijn"}

\* the closed set of canonical zijn-verbs in _pick_aux
CANONICAL_ZIJN ==
  {"gaan", "komen", "blijven", "worden", "vallen", "beginnen", "opstaan", "terugkomen"}

IsStr(v) == "str" \in DOMAIN v
Elems(xs) == {xs[n] : n \in 1..Len(xs)}

\* _pick_aux ignoring what the verb declares
_pick_aux_always_hebben(entry) == Ok("hebben")

_pick_aux(entry) ==
  IF "aux" \notin DOMAIN entry THEN Raise("KeyError")
  ELSE IF IsStr(entry.aux) THEN Ok(entry.aux.str)
  ELSE IF Len(entry.aux.list) > 0 /\ "zijn" \in Elems(entry.aux.list)
       THEN IF "infinitive" \notin DOMAIN entry THEN Raise("KeyError")
            ELSE IF entry.infinitive \in CANONICAL_ZIJN THEN Ok("zijn") ELSE Ok("hebben")
       ELSE Ok("hebben")

\* AUX_CONJUGATION[aux][aux_time][pronoun]
aux_lookup(aux_name, aux_time, pronoun) ==
  IF aux_name \notin DOMAIN AUX_CONJUGATION THEN Raise("KeyError")
  ELSE IF aux_time \notin DOMAIN AUX_CONJUGATION[aux_name] THEN Raise("KeyError")
  ELSE IF pronoun \notin DOMAIN AUX_CONJUGATION[aux_name][aux_time] THEN Raise("KeyError")
  ELSE Ok(AUX_CONJUGATION[aux_name][aux_time][pronoun])

\* verbs: the module's table VERBS
get_finite_form(verbs, infinitive, tense, pronoun) ==
  IF infinitive \notin DOMAIN verbs THEN Raise("KeyError")
  ELSE LET entry == verbs[infinitive] IN
    IF tense \in SIMPLE_TENSES
    THEN LET key == IF tense = "o.t.t." THEN "o_t_t" ELSE "o_v_t" IN
         IF "conjugations" \notin DOMAIN entry THEN Raise("KeyError")
         ELSE IF key \notin DOMAIN entry.conjugations THEN Raise("KeyError")
         ELSE IF pronoun \notin DOMAIN entry.conjugations[key] THEN Raise("KeyError")
         ELSE Ok(entry.conjugations[key][pronoun])
    ELSE IF tense \notin DOMAIN TENSES THEN Raise("KeyError")
    ELSE LET aux_time == TENSES[tense].aux_time IN
         IF aux_time \notin SIMPLE_TENSES THEN Raise("AssertionError")
         ELSE LET aux_used == _pick_aux(entry) IN
              IF aux_used.kind # "ok" THEN aux_used
              ELSE LET aux_form == aux_lookup(aux_used.value, aux_time, pronoun) IN
                   IF aux_form.kind # "ok" THEN aux_form
                   ELSE IF "past_participle" \notin DOMAIN entry THEN Raise("KeyError")
                   ELSE Ok(aux_form.value \o " " \o entry.past_participle)

\* list_templates_for_tense without its filter
list_templates_unfiltered(sentence_templates, tense) == sentence_templates

\* sentence_templates: the module's table SENTENCE_TEMPLATES
list_templates_for_tense(sentence_templates, tense) ==
  SelectSeq(sentence_templates, LAMBDA t : t.tense = tense)

\* t.get("allowed_verbs", ALL_VERBS)
list_verbs_for_template(t) ==
  IF "allowed_verbs" \in DOMAIN t THEN t.allowed_verbs ELSE ALL_VERBS

-----------------------------------------------------------------------------
(* Answer composition and grading (main.py) *)

\* the auxiliaries build_expected_answers iterates over
\* aux_list keeping the first declared auxiliary only
aux_list_first(entry) ==
  IF IsStr(entry.aux) THEN <<entry.aux.str>> ELSE <<Head(entry.aux.list)>>

\* aux_list narrowed to the auxiliary _pick_aux prefers
aux_list_picked(entry) == <<_pick_aux(entry).value>>

\* aux_list iterated from the last declared auxiliary to the first
aux_list_reversed(entry) ==
  IF IsStr(entry.aux) THEN <<entry.aux.str>>
  ELSE [n \in 1..Len(entry.aux.list) |-> entry.aux.list[Len(entry.aux.list) + 1 - n]]

aux_list_of(entry) == IF IsStr(entry.aux) THEN <<entry.aux.str>> ELSE entry.aux.list

\* the loop over aux_list: the phrases built so far, or the first error raised
RECURSIVE perfect_phrases(_, _, _, _)
perfect_phrases(aux_list, aux_time, pronoun, past_participle) ==
  IF Len(aux_list) = 0 THEN Ok(<<>>)
  ELSE LET aux_form == aux_lookup(Head(aux_list), aux_time, pronoun) IN
       IF aux_form.kind # "ok" THEN aux_form
       ELSE LET more == perfect_phrases(Tail(aux_list), aux_time, pronoun, past_participle) IN
            IF more.kind # "ok" THEN more
            ELSE Ok(<<aux_form.value \o " " \o past_participle>> \o more.value)

\* the answer lists returned without the deduplication loop
unique_pairs_skipped(normalized_variants, display_variants, seen) ==
  [norm |-> normalized_variants, disp |-> display_variants]

\* the answer lists with the display phrases in reverse order
unique_pairs_reversed_display(normalized_variants, display_variants, seen) ==
  [norm |-> normalized_variants,
   disp |-> [n \in 1..Len(display_variants) |->
               display_variants[Len(display_variants) + 1 - n]]]

\* the deduplication loop: keeps the first display phrase of every normalized form
RECURSIVE unique_pairs(_, _, _)
unique_pairs(normalized_variants, display_variants, seen) ==
  IF Len(normalized_variants) = 0 \/ Len(display_variants) = 0
  THEN [norm |-> <<>>, disp |-> <<>>]
  ELSE LET n == Head(normalized_variants)
           d == Head(display_variants)
           more == unique_pairs(Tail(normalized_variants), Tail(display_variants),
                                seen \cup {n})
       IN IF n \notin seen
          THEN [norm |-> <<n>> \o more.norm, disp |-> <<d>> \o more.disp]
          ELSE more

normalize_all(xs) == [n \in 1..Len(xs) |-> normalize_answer(xs[n])]

build_expected_answers(verbs, verb, tense, pronoun) ==
  IF verb \notin DOMAIN verbs THEN Raise("KeyError")
  ELSE LET entry == verbs[verb] IN
    IF tense \in SIMPLE_TENSES
    THEN LET finite == get_finite_form(verbs, verb, tense, pronoun) IN
         IF finite.kind # "ok" THEN finite
         ELSE Ok([norm |-> <<normalize_answer(finite.value)>>, disp |-> <<finite.value>>])
    ELSE IF tense \notin DOMAIN TENSES THEN Raise("KeyError")
    ELSE LET aux_time == TENSES[tense].aux_time IN
         IF aux_time \notin SIMPLE_TENSES THEN Raise("AssertionError")
         ELSE IF "aux" \notin DOMAIN entry THEN Raise("KeyError")
         ELSE IF "past_participle" \notin DOMAIN entry THEN Raise("KeyError")
         ELSE LET phrases == perfect_phrases(aux_list_of(entry), aux_time, pronoun,
                                             entry.past_participle) IN
              IF phrases.kind # "ok" THEN phrases
              ELSE Ok(unique_pairs(normalize_all(phrases.value), phrases.value, {}))


\* a choice whose result depends on whether a question was picked before
choice_after_earlier_call(seq, k) ==
  IF Len(seq) = 0 THEN Raise("IndexError")
  ELSE IF ret.kind = "pending" THEN Ok(seq[k])
  ELSE Ok(seq[(k % Len(seq)) + 1])

\* random.choice(seq) with outcome k: IndexError on an empty sequence
choice(seq, k) == IF Len(seq) = 0 THEN Raise("IndexError") ELSE Ok(seq[k])

\* d.get(key): None when the key is missing
get(d, key) == IF key \in DOMAIN d THEN d[key] ELSE None

\* the verb drawn from all verbs, whatever the template allows
eligible_verbs_all(tmpl) == VERBS_KEYS

\* the list pick_question draws the verb from
eligible_verbs(tmpl) ==
  IF "allowed_verbs" \in DOMAIN tmpl /\ Len(tmpl.allowed_verbs) > 0
  THEN tmpl.allowed_verbs
  ELSE VERBS_KEYS

\* ti, vi: the outcomes of the two random.choice calls
pick_question(verbs, sentence_templates, tense, ti, vi) ==
  LET templates == list_templates_for_tense(sentence_templates, tense)
      picked == choice(templates, ti)
  IN IF picked.kind # "ok" THEN picked
     ELSE LET tmpl == picked.value
              drawn == choice(eligible_verbs(tmpl), vi)
          IN IF drawn.kind # "ok" THEN drawn
             ELSE LET verb == drawn.value
                      tmpl_pronoun == get(tmpl, "pronoun")
                  IN IF tmpl_pronoun = None THEN Raise("KeyError")
                     ELSE LET built == build_expected_answers(verbs, verb, tense, tmpl_pronoun)
                          IN IF built.kind # "ok" THEN built
                             ELSE IF tense \notin DOMAIN TENSES THEN Raise("KeyError")
                             ELSE IF get(tmpl, "id") = None \/ get(tmpl, "template") = None
                                  THEN Raise("KeyError")
                             ELSE Ok([template_id |-> tmpl.id,
                                      template_text |-> tmpl.template,
                                      tense |-> tense,
                                      pronoun |-> tmpl_pronoun,
                                      verb_infinitive |-> verb,
                                      expected_answers |-> built.value.norm,
                                      display_answers |-> built.value.disp,
                                      explanation |->
                                        "Tijd: " \o tense \o " (" \o TENSES[tense].label
                                        \o "). Onderwerp: " \o tmpl_pronoun
                                        \o ". Werkwoord: " \o verb \o ".",
                                      hint |-> IF "hint" \in DOMAIN tmpl THEN tmpl.hint
                                               ELSE tense])

\* the lines ask_question prints before it reads the answer
question_lines(question, question_number, total_n) ==
  << "",
     "[" \o ToString(question_number) \o "/" \o ToString(total_n) \o "] "
       \o question.explanation,
     "Zin (" \o question.hint \o "): " \o question.template_text,
     "Vul de juiste vervoeging in op de plek van de '____'.",
     "Te vervoegen werkwoord: " \o question.verb_infinitive >>

\* feedback that shows the first acceptable answer only
feedback_lines_first_only(question, correct) ==
  IF correct THEN <<"Correct!">>
  ELSE <<"Niet correct.", "Correcte antwoord: " \o question.display_answers[1]>>

\* the lines ask_question prints after grading
feedback_lines(question, correct) ==
  IF correct THEN <<"Correct!">>
  ELSE <<"Niet correct.">>
       \o (IF Len(question.display_answers) = 1
           THEN <<"Correcte antwoord: " \o question.display_answers[1]>>
           ELSE <<"Mogelijke correcte antwoorden:">>
                \o [n \in 1..Len(question.display_answers) |->
                      " - " \o question.display_answers[n]])
       \o (IF question.tense \in PERFECT_TENSES
           THEN <<"Let op: bij de voltooide tijden gebruik je het juiste hulpwerkwoord ('hebben' of 'zijn') plus het voltooid deelwoord.">>
           ELSE <<>>)

\* ask_question comparing with the first expected answer only
ask_question_first_only(question, question_number, total_n, line) ==
  LET correct == normalize_answer(strip(line)) = question.expected_answers[1]
  IN [correct |-> correct,
      printed |-> question_lines(question, question_number, total_n)
                  \o feedback_lines(question, correct),
      question |-> question]

\* ask_question removing the answer it matched from the question
ask_question_consuming(question, question_number, total_n, line) ==
  LET normalized_user == normalize_answer(strip(line))
      correct == normalized_user \in Elems(question.expected_answers)
  IN [correct |-> correct,
      printed |-> question_lines(question, question_number, total_n)
                  \o feedback_lines(question, correct),
      question |-> [question EXCEPT !.expected_answers =
                      SelectSeq(@, LAMBDA e : e # normalized_user)]]

\* line: what input() returned; the field question is the Question object as
\* the call leaves it
ask_question(question, question_number, total_n, line) ==
  LET user == strip(line)
      normalized_user == normalize_answer(user)
      correct == normalized_user \in Elems(question.expected_answers)
  IN [correct |-> correct,
      printed |-> question_lines(question, question_number, total_n)
                  \o feedback_lines(question, correct),
      question |-> question]

-----------------------------------------------------------------------------
(* The session, idle while single functions are exercised *)

NoQuestion == [template_id |-> None]

SessionIdle ==
  /\ pc = "idle" /\ tenses = <<>> /\ total = 0 /\ asked = 0 /\ correct_count = 0
  /\ i = 0 /\ q = NoQuestion /\ graded = 0 /\ stdout = <<>> /\ rc = None
  /\ exc = None /\ tables = None

-----------------------------------------------------------------------------
(* Exercising normalize_answer on raw strings *)

\* letters of both cases, whitespace and punctuation
Alphabet == {"a", "B", " ", "\t", ".", "!"}

RECURSIVE StringsOfLen(_)
StringsOfLen(n) ==
  IF n = 0 THEN {""} ELSE {c \o s : c \in Alphabet, s \in StringsOfLen(n - 1)}

RawStrings == UNION {StringsOfLen(n) : n \in 0..MaxLen}

InitNormalize ==
  /\ \E s \in RawStrings : call = [fn |-> "normalize_answer", s |-> s]
  /\ ret = Pending /\ ret2 = Pending
  /\ SessionIdle

CallNormalize ==
  /\ call.fn = "normalize_answer" /\ ret = Pending
  /\ ret' = Ok(normalize_answer(call.s))
  /\ UNCHANGED <<call, ret2>> /\ UNCHANGED session_vars

CallNormalizeAgain ==
  /\ call.fn = "normalize_answer" /\ ret.kind = "ok" /\ ret2 = Pending
  /\ ret2' = Ok(normalize_answer(ret.value))
  /\ UNCHANGED <<call, ret>> /\ UNCHANGED session_vars

NextNormalize == CallNormalize \/ CallNormalizeAgain

SpecNormalize == InitNormalize /\ [][NextNormalize]_vars

-----------------------------------------------------------------------------
(* Prompts of the session (main.py) *)

DIGITS == "0123456789"
IsDigit(c) == \E n \in 1..Len(DIGITS) : Char(DIGITS, n) = c
DigitValue(c) == (CHOOSE n \in 1..Len(DIGITS) : Char(DIGITS, n) = c) - 1

\* the longest prefix of digits of s
RECURSIVE digit_prefix(_)
digit_prefix(s) ==
  IF Len(s) > 0 /\ IsDigit(Char(s, 1)) THEN Char(s, 1) \o digit_prefix(Rest(s)) ELSE ""

\* re.findall(r"\d+", s)
RECURSIVE findall_digits(_)
findall_digits(s) ==
  IF Len(s) = 0 THEN <<>>
  ELSE IF IsDigit(Char(s, 1))
       THEN LET run == digit_prefix(s)
            IN <<run>> \o findall_digits(SubSeq(s, Len(run) + 1, Len(s)))
       ELSE findall_digits(Rest(s))

\* int() of a string of digits
RECURSIVE int_of_digits(_)
int_of_digits(s) ==
  IF Len(s) = 0 THEN 0
  ELSE 10 * int_of_digits(Front(s)) + DigitValue(Char(s, Len(s)))

\* digits, single underscores allowed between them
RECURSIVE is_digit_group(_)
is_digit_group(s) ==
  /\ Len(s) > 0
  /\ IsDigit(Char(s, 1))
  /\ \/ Len(s) = 1
     \/ is_digit_group(Rest(s))
     \/ Len(s) > 2 /\ Char(s, 2) = "_" /\ is_digit_group(SubSeq(s, 3, Len(s)))

RECURSIVE without_underscores(_)
without_underscores(s) ==
  IF Len(s) = 0 THEN ""
  ELSE (IF Char(s, 1) = "_" THEN "" ELSE Char(s, 1)) \o without_underscores(Rest(s))

\* int(val): ValueError unless val is an optionally signed decimal literal
int_of(val) ==
  LET signed == Len(val) > 0 /\ Char(val, 1) \in {"+", "-"}
      body == IF signed THEN Rest(val) ELSE val
  IN IF ~is_digit_group(body) THEN Raise("ValueError")
     ELSE LET magnitude == int_of_digits(without_underscores(body))
          IN Ok(IF signed /\ Char(val, 1) = "-" THEN 0 - magnitude ELSE magnitude)

ALL_TENSES == <<"o.t.t.", "o.v.t.", "v.t.t.", "v.v.t.">>

\* the tenses picked for the numbers typed, in the order typed
RECURSIVE picked_tenses(_)
picked_tenses(nums) ==
  IF Len(nums) = 0 THEN <<>>
  ELSE LET number == int_of_digits(Head(nums))
       IN (IF 1 <= number /\ number <= Len(ALL_TENSES) THEN <<ALL_TENSES[number]>>
           ELSE <<>>)
          \o picked_tenses(Tail(nums))

\* the tenses picked, also when there are none
select_tenses_no_fallback(line) == picked_tenses(findall_digits(strip(line)))

\* line: what input() returned
select_tenses_interactive(line) ==
  LET chosen == strip(line)
      picked == picked_tenses(findall_digits(chosen))
  IN IF Len(chosen) = 0 THEN ALL_TENSES
     ELSE IF Len(picked) = 0 THEN ALL_TENSES
     ELSE picked

\* the number typed, moved to the nearest allowed value
ask_int_clamped(default, min_value, max_value, line) ==
  LET parsed == int_of(strip(line))
  IN IF parsed.kind # "ok" THEN default
     ELSE IF parsed.value < min_value THEN min_value
     ELSE IF parsed.value > max_value THEN max_value
     ELSE parsed.value

\* line: what input() returned
ask_int(default, min_value, max_value, line) ==
  LET val == strip(line)
      parsed == int_of(val)
  IN IF Len(val) = 0 THEN default
     ELSE IF parsed.kind # "ok" THEN default
     ELSE IF parsed.value < min_value \/ parsed.value > max_value THEN default
     ELSE parsed.value

\* the arguments run_session passes to ask_int
DEFAULT_TOTAL == 10
MIN_TOTAL == 1
MAX_TOTAL == 500

\* "{pct:.1f}%" for pct = correct_count / asked * 100.0; below 16 questions no
\* percentage lies halfway between two tenths
score_text(correct_n, asked_n) ==
  LET tenths == (2000 * correct_n + asked_n) \div (2 * asked_n)
  IN ToString(tenths \div 10) \o "." \o ToString(tenths % 10) \o "%"

\* the result without the percentage line
result_lines_without_score(correct_n, asked_n) ==
  <<"", "Resultaat", "---------",
    "Goed: " \o ToString(correct_n) \o " / " \o ToString(asked_n),
    "", "Bedankt voor het oefenen! Wil je opnieuw proberen, start de applicatie dan opnieuw.">>

result_lines(correct_n, asked_n) ==
  <<"", "Resultaat", "---------",
    "Goed: " \o ToString(correct_n) \o " / " \o ToString(asked_n)>>
  \o (IF asked_n > 0 THEN <<"Score: " \o score_text(correct_n, asked_n)>> ELSE <<>>)
  \o <<"", "Bedankt voor het oefenen! Wil je opnieuw proberen, start de applicatie dan opnieuw.">>

-----------------------------------------------------------------------------
(* The session: __init__.main calling run_session *)

\* lines typed at the tense prompt
TenseLines == {"", "1", "3,4", "2 2", "0,5", "4;1;9", "x"}

\* lines typed at the question-count prompt
CountLines == {"", "1", "2", "3", " 2 ", "+1", "0", "-1", "501", "1_0", "veel"}

\* the lines that ask for no more questions than the model follows
BoundedCountLines ==
  {line \in CountLines : ask_int(DEFAULT_TOTAL, MIN_TOTAL, MAX_TOTAL, line) <= MaxTotal}

\* lines typed as an answer
AnswerLines(question) ==
  Elems(question.display_answers)
  \cup {" " \o capitalize(question.display_answers[1]) \o "!",
        "", question.verb_infinitive}

\* the tables as the import of verbs_data leaves them
ShippedTables ==
  [VERBS |-> VERBS, AUX_CONJUGATION |-> AUX_CONJUGATION, TENSES |-> TENSES,
   SENTENCE_TEMPLATES |-> SENTENCE_TEMPLATES]

HarnessIdle == call = [fn |-> "session"] /\ ret = Pending /\ ret2 = Pending

Init ==
  /\ HarnessIdle
  /\ pc = "import" /\ tenses = <<>> /\ total = 0 /\ asked = 0 /\ correct_count = 0
  /\ i = 0 /\ q = NoQuestion /\ graded = 0 /\ stdout = <<>> /\ rc = None /\ exc = None
  /\ tables = ShippedTables

\* from .main import run_session, then the welcome lines of run_session
ImportSession ==
  /\ pc = "import"
  /\ pc' = "select_tenses"
  /\ stdout' = <<"Welkom bij de Werkwoorden Trainer!",
                 "Je gaat werkwoorden vervoegen in voorbereide zinnen.",
                 "We tonen steeds het werkwoord (infinitief) dat je moet vervoegen en de gevraagde tijd.",
                 "">>
  /\ UNCHANGED <<tenses, total, asked, correct_count, i, q, graded, rc, exc>>
  /\ UNCHANGED tables
  /\ UNCHANGED harness_vars

\* the import raises: main reports it and returns 1
ImportFails ==
  /\ pc = "import"
  /\ pc' = "exited" /\ rc' = 1
  /\ stdout' = <<"Kon de applicatie niet starten: import van '.main' mislukte.">>
  /\ UNCHANGED <<tenses, total, asked, correct_count, i, q, graded, exc>>
  /\ UNCHANGED tables
  /\ UNCHANGED harness_vars

SelectTenses ==
  /\ pc = "select_tenses"
  /\ \E line \in TenseLines :
       /\ tenses' = select_tenses_interactive(line)
       /\ stdout' = IF Len(strip(line)) > 0 /\ Len(picked_tenses(findall_digits(strip(line)))) = 0
                    THEN <<"Geen geldige keuze gedetecteerd. Alle tijden worden gebruikt.">>
                    ELSE <<>>
  /\ pc' = "ask_total"
  /\ UNCHANGED <<total, asked, correct_count, i, q, graded, rc, exc>>
  /\ UNCHANGED tables
  /\ UNCHANGED harness_vars

\* total = ask_int(...), then correct_count = 0, asked = 0 and the loop starts
AskTotal ==
  /\ pc = "ask_total"
  /\ \E line \in BoundedCountLines :
       total' = ask_int(DEFAULT_TOTAL, MIN_TOTAL, MAX_TOTAL, line)
  /\ correct_count' = 0 /\ asked' = 0 /\ i' = 1
  /\ stdout' = <<"", "Prima! We starten.", "">>
  /\ pc' = "loop"
  /\ UNCHANGED <<tenses, q, graded, rc, exc>>
  /\ UNCHANGED tables
  /\ UNCHANGED harness_vars

\* a loop that runs once more than asked for
loop_range_long(total_n) == 1..(total_n + 1)

\* a loop that stops one round early
loop_range_short(total_n) == 1..(total_n - 1)

\* range(1, total + 1)
loop_range(total_n) == 1..total_n

\* a handler that catches whatever the loop raises
caught_in_loop_any(e) == TRUE

\* the except clause of the try block around the loop
caught_in_loop(e) == e = "KeyboardInterrupt"

\* tense = random.choice(tenses); q = pick_question(tense); asked += 1; then
\* ask_question prints the question and waits for input
PickQuestion ==
  /\ pc = "loop" /\ i \in loop_range(total)
  /\ \E k \in 1..Len(tenses) :
       LET templates == list_templates_for_tense(tables.SENTENCE_TEMPLATES, tenses[k])
       IN \E ti \in 1..(IF Len(templates) = 0 THEN 1 ELSE Len(templates)) :
            \E vi \in 1..(IF Len(templates) = 0 THEN 1
                          ELSE Len(eligible_verbs(templates[ti]))) :
              LET picked == pick_question(tables.VERBS, tables.SENTENCE_TEMPLATES, tenses[k],
                                          ti, vi)
              IN IF picked.kind = "ok"
                 THEN /\ q' = picked.value
                      /\ asked' = asked + 1
                      /\ stdout' = question_lines(picked.value, i, total)
                      /\ pc' = "answer"
                      /\ exc' = exc
                 ELSE /\ exc' = picked.error
                      /\ IF caught_in_loop(picked.error)
                         THEN /\ pc' = "result"
                              /\ stdout' = <<"", "Onderbroken door gebruiker.">>
                         ELSE /\ pc' = "crashed"
                              /\ stdout' = stdout
                      /\ UNCHANGED <<q, asked>>
  /\ UNCHANGED <<tenses, total, correct_count, i, graded, rc>>
  /\ UNCHANGED tables
  /\ UNCHANGED harness_vars

\* input() returns a line: ask_question grades it, run_session counts it
Answer ==
  /\ pc = "answer"
  /\ \E line \in AnswerLines(q) :
       LET result == ask_question(q, i, total, line)
       IN /\ correct_count' = IF result.correct THEN correct_count + 1 ELSE correct_count
          /\ stdout' = feedback_lines(q, result.correct)
          /\ q' = result.question
  /\ graded' = graded + 1
  /\ i' = i + 1
  /\ pc' = "loop"
  /\ UNCHANGED <<tenses, total, asked, rc, exc>>
  /\ UNCHANGED tables
  /\ UNCHANGED harness_vars

\* the for loop is exhausted
LoopDone ==
  /\ pc = "loop" /\ i \notin loop_range(total)
  /\ pc' = "result"
  /\ stdout' = <<>>
  /\ UNCHANGED <<tenses, total, asked, correct_count, i, q, graded, rc, exc>>
  /\ UNCHANGED tables
  /\ UNCHANGED harness_vars

\* KeyboardInterrupt inside the try block of run_session
InterruptLoop ==
  /\ pc \in {"loop", "answer"}
  /\ pc' = "result"
  /\ stdout' = <<"", "Onderbroken door gebruiker.">>
  /\ UNCHANGED <<tenses, total, asked, correct_count, i, q, graded, rc, exc>>
  /\ UNCHANGED tables
  /\ UNCHANGED harness_vars

\* the result is printed, run_session returns and main returns 0
PrintResult ==
  /\ pc = "result"
  /\ stdout' = result_lines(correct_count, asked)
  /\ rc' = 0
  /\ pc' = "exited"
  /\ UNCHANGED <<tenses, total, asked, correct_count, i, q, graded, exc>>
  /\ UNCHANGED tables
  /\ UNCHANGED harness_vars

\* KeyboardInterrupt handled by main wherever it is raised, as if run_session
\* had no try block
InterruptOutside_anywhere ==
  /\ pc \in {"select_tenses", "ask_total", "loop", "answer", "result"}
  /\ stdout' = <<"", "Afgebroken.">>
  /\ rc' = 130
  /\ pc' = "exited"
  /\ UNCHANGED <<tenses, total, asked, correct_count, i, q, graded, exc>>
  /\ UNCHANGED tables
  /\ UNCHANGED harness_vars

\* KeyboardInterrupt outside the try block of run_session: main returns 130
InterruptOutside ==
  /\ pc \in {"select_tenses", "ask_total", "result"}
  /\ stdout' = <<"", "Afgebroken.">>
  /\ rc' = 130
  /\ pc' = "exited"
  /\ UNCHANGED <<tenses, total, asked, correct_count, i, q, graded, exc>>
  /\ UNCHANGED tables
  /\ UNCHANGED harness_vars

\* input() raises EOFError: nothing catches it
EndOfInput ==
  /\ pc \in {"select_tenses", "ask_total", "answer"}
  /\ exc' = "EOFError"
  /\ pc' = "crashed"
  /\ stdout' = <<>>
  /\ UNCHANGED <<tenses, total, asked, correct_count, i, q, graded, rc>>
  /\ UNCHANGED tables
  /\ UNCHANGED harness_vars

Next ==
  \/ ImportSession \/ ImportFails \/ SelectTenses \/ AskTotal \/ PickQuestion
  \/ Answer \/ LoopDone \/ InterruptLoop \/ PrintResult \/ InterruptOutside
  \/ EndOfInput

Spec == Init /\ [][Next]_vars

-----------------------------------------------------------------------------
(* Exercising the resolver functions on rows of the verb table *)

\* the values the field aux of a VerbEntry can hold: a bare string or a list
AuxLists == UNION {[1..n -> AUXILIARIES] : n \in 1..MaxAuxList}
AuxShapes == {[str |-> a] : a \in AUXILIARIES} \cup {[list |-> l] : l \in AuxLists}

\* VERBS with the row of verb declaring aux
RowTable(verb, aux) == [VERBS EXCEPT ![verb].aux = aux]

\* the call is made on the table as shipped
Shipped == call.aux = VERBS[call.verb].aux

InitResolver ==
  /\ \/ \E verb \in DOMAIN VERBS, tense \in TENSE_CODES, pronoun \in PronounSet :
          call = [fn |-> "get_finite_form", verb |-> verb, aux |-> VERBS[verb].aux,
                  tense |-> tense, pronoun |-> pronoun]
     \/ \E verb \in DOMAIN VERBS, aux \in AuxShapes, tense \in TENSE_CODES,
           pronoun \in PronounSet :
          call = [fn |-> "build_expected_answers", verb |-> verb, aux |-> aux,
                  tense |-> tense, pronoun |-> pronoun]
     \/ \E verb \in DOMAIN VERBS, aux \in AuxShapes :
          call = [fn |-> "_pick_aux", verb |-> verb, aux |-> aux]
     \/ \E tense \in TENSE_CODES :
          call = [fn |-> "list_templates_for_tense", tense |-> tense]
  /\ ret = Pending /\ ret2 = Pending
  /\ SessionIdle

CallGetFiniteForm ==
  /\ call.fn = "get_finite_form" /\ ret = Pending
  /\ ret' = get_finite_form(RowTable(call.verb, call.aux), call.verb, call.tense,
                            call.pronoun)
  /\ UNCHANGED <<call, ret2>> /\ UNCHANGED session_vars

\* build_expected_answers called with the arguments get_finite_form was given
CallBuildForSameArguments ==
  /\ call.fn = "get_finite_form" /\ ret # Pending /\ ret2 = Pending
  /\ ret2' = build_expected_answers(RowTable(call.verb, call.aux), call.verb,
                                    call.tense, call.pronoun)
  /\ UNCHANGED <<call, ret>> /\ UNCHANGED session_vars

CallBuildExpectedAnswers ==
  /\ call.fn = "build_expected_answers" /\ ret = Pending
  /\ ret' = build_expected_answers(RowTable(call.verb, call.aux), call.verb,
                                   call.tense, call.pronoun)
  /\ UNCHANGED <<call, ret2>> /\ UNCHANGED session_vars

CallPickAux ==
  /\ call.fn = "_pick_aux" /\ ret = Pending
  /\ ret' = _pick_aux(RowTable(call.verb, call.aux)[call.verb])
  /\ UNCHANGED <<call, ret2>> /\ UNCHANGED session_vars

CallListTemplates ==
  /\ call.fn = "list_templates_for_tense" /\ ret = Pending
  /\ ret' = Ok(list_templates_for_tense(SENTENCE_TEMPLATES, call.tense))
  /\ UNCHANGED <<call, ret2>> /\ UNCHANGED session_vars

NextResolver ==
  \/ CallGetFiniteForm \/ CallBuildForSameArguments \/ CallBuildExpectedAnswers
  \/ CallPickAux \/ CallListTemplates

SpecResolver == InitResolver /\ [][NextResolver]_vars

-----------------------------------------------------------------------------
(* Exercising pick_question and ask_question on every verb, tense and pronoun *)

\* a template that restricts no verb: allowed_verbs is absent
FreeTemplate(tense, pronoun) ==
  [id |-> "free", template |-> "Vul in: ____.", tense |-> tense,
   pronoun |-> pronoun, hint |-> tense]

\* how a learner may type an answer d: letter case changed, whitespace around
\* it, punctuation marks after it, whitespace between it and the marks
Styles ==
  [case : {"same", "capitalize", "upper"}, pad : {"", " \t"}, sep : {"", " "},
   punct : {"", ".", "!", ".?"}]

Typed(d, st) ==
  st.pad
  \o (CASE st.case = "same" -> d
        [] st.case = "capitalize" -> capitalize(d)
        [] st.case = "upper" -> upper(d))
  \o st.sep \o st.punct \o st.pad

PlainStyle == [case |-> "same", pad |-> "", sep |-> "", punct |-> ""]

\* the lines input() may return for a question: every display answer typed in
\* every style, and lines that are no answer
TypedLines(question) ==
  {[line |-> Typed(d, st), from |-> d, style |-> st] :
     d \in Elems(question.display_answers), st \in Styles}
  \cup {[line |-> s, from |-> None, style |-> PlainStyle] :
          s \in {"", "   ", " \t ", question.verb_infinitive,
                 question.display_answers[1] \o "x"}}

InitGrade ==
  /\ \E tense \in TENSE_CODES, pronoun \in PronounSet, vi \in 1..Len(VERBS_KEYS) :
        call = [fn |-> "ask_question", tense |-> tense, pronoun |-> pronoun,
                vi |-> vi]
  /\ ret = Pending /\ ret2 = Pending
  /\ SessionIdle

CallPickQuestion ==
  /\ call.fn = "ask_question" /\ ret = Pending
  /\ ret' = pick_question(VERBS, <<FreeTemplate(call.tense, call.pronoun)>>,
                          call.tense, 1, call.vi)
  /\ UNCHANGED <<call, ret2>> /\ UNCHANGED session_vars

CallAskQuestion ==
  /\ call.fn = "ask_question" /\ ret.kind = "ok" /\ ret2 = Pending
  /\ \E typed \in TypedLines(ret.value) :
        ret2' = Ok([line |-> typed.line, from |-> typed.from, style |-> typed.style,
                    result |-> ask_question(ret.value, 1, 1, typed.line)])
  /\ UNCHANGED <<call, ret>> /\ UNCHANGED session_vars

NextGrade == CallPickQuestion \/ CallAskQuestion

SpecGrade == InitGrade /\ [][NextGrade]_vars

-----------------------------------------------------------------------------
(* Exercising pick_question on the shipped templates and on template tables  *)
(* the Template type allows                                                 *)

\* a template whose allowed_verbs is an empty list
UnrestrictedTemplate(tense, pronoun) ==
  [id |-> "unrestricted", template |-> "Vul in: ____.", tense |-> tense,
   pronoun |-> pronoun, hint |-> tense, allowed_verbs |-> <<>>]

\* SENTENCE_TEMPLATES as the call finds it
TemplateTable(c) ==
  CASE c.table = "shipped" -> SENTENCE_TEMPLATES
    [] c.table = "free" -> <<FreeTemplate(c.tense, c.pronoun)>>
    [] c.table = "unrestricted" -> <<UnrestrictedTemplate(c.tense, c.pronoun)>>
    [] c.table = "without_tense" ->
         SelectSeq(SENTENCE_TEMPLATES, LAMBDA t : t.tense # c.tense)

\* VERBS as the call finds it: as shipped, or with the drawn verb's row
\* declaring c.aux
AsShipped == [shipped |-> TRUE]

VerbTable(c) ==
  IF c.aux = AsShipped THEN VERBS ELSE RowTable(VERBS_KEYS[c.vi], c.aux)

\* the outcomes random.choice can have on seq (one outcome, an error, when
\* seq is empty)
Outcomes(seq) == 1..(IF Len(seq) = 0 THEN 1 ELSE Len(seq))

PickCalls ==
  {[fn |-> "pick_question", table |-> "shipped", tense |-> tense,
    pronoun |-> None, aux |-> AsShipped, ti |-> ti, vi |-> vi] :
     tense \in TENSE_CODES, ti \in 1..Len(SENTENCE_TEMPLATES),
     vi \in 1..Len(VERBS_KEYS)}
  \cup {[fn |-> "pick_question", table |-> "free", tense |-> tense,
         pronoun |-> pronoun, aux |-> aux, ti |-> 1, vi |-> vi] :
          tense \in TENSE_CODES, pronoun \in PronounSet, aux \in AuxShapes,
          vi \in 1..Len(VERBS_KEYS)}
  \cup {[fn |-> "pick_question", table |-> "unrestricted", tense |-> tense,
         pronoun |-> pronoun, aux |-> AsShipped, ti |-> 1, vi |-> vi] :
          tense \in TENSE_CODES, pronoun \in PronounSet,
          vi \in 1..Len(VERBS_KEYS)}
  \cup {[fn |-> "pick_question", table |-> "without_tense", tense |-> tense,
         pronoun |-> None, aux |-> AsShipped, ti |-> 1, vi |-> 1] :
          tense \in TENSE_CODES}

\* the outcomes of the call are outcomes random.choice can have
PossibleCall(c) ==
  LET templates == list_templates_for_tense(TemplateTable(c), c.tense)
  IN /\ c.ti \in Outcomes(templates)
     /\ c.vi \in (IF Len(templates) = 0 THEN {1}
                  ELSE Outcomes(eligible_verbs(templates[c.ti])))

\* the templates list_verbs_for_template is called on: the shipped ones, and
\* for every tense and pronoun one without allowed_verbs and one with an empty
\* allowed_verbs
TemplatesToList ==
  Elems(SENTENCE_TEMPLATES)
  \cup {FreeTemplate(tense, pronoun) : tense \in TENSE_CODES, pronoun \in PronounSet}
  \cup {UnrestrictedTemplate(tense, pronoun) :
          tense \in TENSE_CODES, pronoun \in PronounSet}

InitPick ==
  /\ \/ call \in {c \in PickCalls : PossibleCall(c)}
     \/ \E t \in TemplatesToList :
          call = [fn |-> "list_verbs_for_template", template |-> t]
  /\ ret = Pending /\ ret2 = Pending
  /\ SessionIdle

CallPick ==
  /\ call.fn = "pick_question" /\ ret = Pending
  /\ ret' = pick_question(VerbTable(call), TemplateTable(call), call.tense,
                          call.ti, call.vi)
  /\ UNCHANGED <<call, ret2>> /\ UNCHANGED session_vars

\* a second call with the same tense and the same outcomes of random.choice
CallPickAgain ==
  /\ call.fn = "pick_question" /\ ret # Pending /\ ret2 = Pending
  /\ ret2' = pick_question(VerbTable(call), TemplateTable(call), call.tense,
                           call.ti, call.vi)
  /\ UNCHANGED <<call, ret>> /\ UNCHANGED session_vars

CallListVerbs ==
  /\ call.fn = "list_verbs_for_template" /\ ret = Pending
  /\ ret' = Ok(list_verbs_for_template(call.template))
  /\ UNCHANGED <<call, ret2>> /\ UNCHANGED session_vars

NextPick == CallPick \/ CallPickAgain \/ CallListVerbs

SpecPick == InitPick /\ [][NextPick]_vars
-----------------------------------------------------------------------------
(* The session on tables with a defect                                      *)

\* the first shipped template of every tense
FirstTemplates ==
  [n \in 1..Len(ALL_TENSES) |->
     Head(list_templates_for_tense(SENTENCE_TEMPLATES, ALL_TENSES[n]))]

\* a template that allows a verb VERBS does not have
UnknownVerbTemplate ==
  [id |-> "ott_unknown", template |-> "Ik ____ elke dag.", tense |-> "o.t.t.",
   pronoun |-> "ik", hint |-> "o.t.t.", allowed_verbs |-> <<"zwemmen">>]

\* a template without the field pronoun
NoPronounTemplate ==
  [id |-> "ovt_no_pronoun", template |-> "Gisteren ____ wij thuis.",
   tense |-> "o.v.t.", hint |-> "o.v.t.", allowed_verbs |-> <<"werken">>]

\* template tables with one defect each: an unknown verb, a missing field, no
\* template for v.v.t.
BrokenTemplateTables ==
  { FirstTemplates \o <<UnknownVerbTemplate>>,
    FirstTemplates \o <<NoPronounTemplate>>,
    SelectSeq(FirstTemplates, LAMBDA t : t.tense # "v.v.t.") }

InitBrokenData ==
  /\ HarnessIdle
  /\ pc = "import" /\ tenses = <<>> /\ total = 0 /\ asked = 0 /\ correct_count = 0
  /\ i = 0 /\ q = NoQuestion /\ graded = 0 /\ stdout = <<>> /\ rc = None /\ exc = None
  /\ \E broken \in BrokenTemplateTables :
       tables = [ShippedTables EXCEPT !.SENTENCE_TEMPLATES = broken]

SpecBrokenData == InitBrokenData /\ [][Next]_vars

-----------------------------------------------------------------------------
(* The session when every prompt receives a line and no interrupt arrives   *)

NextAnswered ==
  \/ ImportSession \/ SelectTenses \/ AskTotal \/ PickQuestion \/ Answer
  \/ LoopDone \/ PrintResult

Positions ==
  {"import", "select_tenses", "ask_total", "loop", "answer", "result", "exited",
   "crashed"}

\* the process moves on to another position; every step of NextAnswered is
\* such a step, and one can be taken in every position but the two final ones
Advance ==
  /\ pc \notin {"exited", "crashed"}
  /\ pc' \in Positions \ {pc}

\* the process is single-threaded and keeps running: while it has not ended,
\* it moves on
SpecAnswered == Init /\ [][NextAnswered]_vars /\ WF_pc(Advance)
-----------------------------------------------------------------------------
(* Exercising the two prompts of run_session on typed lines                  *)

\* how many numbers a line typed at the tense prompt holds at most
MaxNums == 3

\* the numbers typed at the tense prompt
TypedNumbers == {0, 1, 2, 3, 4, 5, 12}

\* what the user puts between two numbers
Separators == {",", ", ", " ", ".", " en "}

\* what the user puts around the line
Paddings == {"", " "}

RECURSIVE NumberSeqs(_)
NumberSeqs(n) ==
  IF n = 0 THEN {<<>>}
  ELSE NumberSeqs(n - 1)
       \cup {Append(s, number) : s \in {t \in NumberSeqs(n - 1) : Len(t) = n - 1},
                                 number \in TypedNumbers}

\* the line a user types for the numbers nums
RECURSIVE typed_numbers(_, _)
typed_numbers(nums, sep) ==
  IF Len(nums) = 0 THEN ""
  ELSE IF Len(nums) = 1 THEN ToString(nums[1])
  ELSE ToString(Head(nums)) \o sep \o typed_numbers(Tail(nums), sep)

\* lines without any digit
TextLines == {"", "   ", "x", "alle", "-", "o.t.t.", " , "}

TenseCalls ==
  {[fn |-> "select_tenses_interactive", nums |-> nums,
    line |-> pad \o typed_numbers(nums, sep) \o pad] :
     nums \in NumberSeqs(MaxNums) \ {<<>>}, sep \in Separators, pad \in Paddings}
  \cup {[fn |-> "select_tenses_interactive", nums |-> <<>>, line |-> line] :
          line \in TextLines}

\* the numbers typed at the count prompt
TypedCounts == {-1, 0, 1, 2, 10, 499, 500, 501, 1000, 1001}

\* the ways a user writes the number n
typed_count(n, format) ==
  CASE format = "plain" -> ToString(n)
    [] format = "padded" -> "  " \o ToString(n) \o " "
    [] format = "plus" -> "+" \o ToString(n)
    [] format = "zeros" -> "00" \o ToString(n)
    [] format = "tabbed" -> ToString(n) \o "\t"

\* lines int() does not accept, and lines that are empty once stripped
NonIntegerLines ==
  {"", " ", "veel", "1.5", "2 3", "1e2", "--1", "1_", "_1", "1__0", "+", "10 vragen"}

\* ask_int as run_session calls it, and as another caller may
IntParameters ==
  {[default |-> DEFAULT_TOTAL, min_value |-> MIN_TOTAL, max_value |-> MAX_TOTAL],
   [default |-> 3, min_value |-> -1, max_value |-> 1000]}

IntCalls ==
  {[fn |-> "ask_int", typed |-> Ok(n), line |-> typed_count(n, format),
    params |-> params] :
     n \in TypedCounts, format \in {"plain", "padded", "tabbed"},
     params \in IntParameters}
  \cup {[fn |-> "ask_int", typed |-> Ok(n), line |-> typed_count(n, format),
         params |-> params] :
          n \in {m \in TypedCounts : m >= 0}, format \in {"plus", "zeros"},
          params \in IntParameters}
  \cup {[fn |-> "ask_int", typed |-> Raise("ValueError"), line |-> line,
         params |-> params] :
          line \in NonIntegerLines, params \in IntParameters}

InitPrompts ==
  /\ call \in TenseCalls \cup IntCalls
  /\ ret = Pending /\ ret2 = Pending
  /\ SessionIdle

CallSelectTenses ==
  /\ call.fn = "select_tenses_interactive" /\ ret = Pending
  /\ ret' = Ok(select_tenses_interactive(call.line))
  /\ UNCHANGED <<call, ret2>> /\ UNCHANGED session_vars

\* one round of the loop of run_session on the tenses returned:
\* tense = random.choice(tenses), q = pick_question(tense)
PickFromTenses ==
  /\ call.fn = "select_tenses_interactive" /\ ret # Pending /\ ret2 = Pending
  /\ \E chosen \in Outcomes(ret.value) :
       LET drawn == choice(ret.value, chosen)
       IN IF drawn.kind # "ok" THEN ret2' = drawn
          ELSE \E ti \in Outcomes(list_templates_for_tense(SENTENCE_TEMPLATES,
                                                          drawn.value)) :
                 ret2' = [kind |-> "picked", tense |-> drawn.value,
                          question |-> pick_question(VERBS, SENTENCE_TEMPLATES,
                                                     drawn.value, ti, 1)]
  /\ UNCHANGED <<call, ret>> /\ UNCHANGED session_vars

CallAskInt ==
  /\ call.fn = "ask_int" /\ ret = Pending
  /\ ret' = Ok(ask_int(call.params.default, call.params.min_value,
                       call.params.max_value, call.line))
  /\ UNCHANGED <<call, ret2>> /\ UNCHANGED session_vars

NextPrompts == CallSelectTenses \/ PickFromTenses \/ CallAskInt

SpecPrompts == InitPrompts /\ [][NextPrompts]_vars
-----------------------------------------------------------------------------
(* Properties of the resolver *)

Returned == ret.kind # "pending"

\* the simple tense that governs the auxiliary of a perfect tense
Governing(tense) == IF tense = "v.t.t." THEN "o.t.t." ELSE "o.v.t."

\* "<auxiliary form> <past participle>" read off the tables
Phrase(aux_name, verb, tense, pronoun) ==
  AUX_CONJUGATION[aux_name][Governing(tense)][pronoun] \o " "
    \o VERBS[verb].past_participle

Declared(aux) == IF IsStr(aux) THEN <<aux.str>> ELSE aux.list

\* C4: get_finite_form returns a non-empty string, without raising, for every
\* verb of VERBS, every pronoun and both simple tenses.
GetFiniteFormSimpleTotal ==
  (call.fn = "get_finite_form" /\ call.tense \in SIMPLE_TENSES /\ Returned)
    => (ret.kind = "ok" /\ Len(ret.value) > 0)

\* C5 as stated: called with a perfect tense, get_finite_form signals an error
\* and returns no string.
GetFiniteFormPerfectRaises ==
  (call.fn = "get_finite_form" /\ call.tense \in PERFECT_TENSES /\ Returned)
    => ret.kind = "raise"

\* C5 amended: called with a perfect tense, get_finite_form signals no error and
\* returns "<auxiliary form> <past participle>" for an auxiliary the verb declares.
GetFiniteFormPerfectReturnsPhrase ==
  (call.fn = "get_finite_form" /\ call.tense \in PERFECT_TENSES /\ Returned)
    => /\ ret.kind = "ok"
       /\ \E a \in Elems(Declared(VERBS[call.verb].aux)) :
            ret.value = Phrase(a, call.verb, call.tense, call.pronoun)

GetFiniteFormPerfectWitness ==
  /\ call.fn = "get_finite_form" /\ call.verb = "lopen" /\ call.tense = "v.v.t."
  /\ call.pronoun = "wij/we" /\ ret = Ok("hadden gelopen")

\* C6: for every verb of VERBS, every pronoun and both perfect tenses,
\* build_expected_answers returns 1 or 2 display phrases, each
\* "<auxiliary form> <past participle>", as many as the verb declares distinct
\* auxiliaries unless two rendered phrases are the same text.
PerfectPhrasesCount ==
  (call.fn = "build_expected_answers" /\ Shipped /\ call.tense \in PERFECT_TENSES
     /\ Returned)
    => /\ ret.kind = "ok"
       /\ Len(ret.value.disp) \in {1, 2}
       /\ \A n \in 1..Len(ret.value.disp) :
            \E a \in AUXILIARIES :
              ret.value.disp[n] = Phrase(a, call.verb, call.tense, call.pronoun)
       /\ LET declared == Elems(Declared(call.aux))
              rendered == {Phrase(a, call.verb, call.tense, call.pronoun) : a \in declared}
          IN \/ Len(ret.value.disp) = Cardinality(declared)
             \/ Cardinality(rendered) < Cardinality(declared)

PerfectPhrasesCountWitness ==
  /\ call.fn = "build_expected_answers" /\ Shipped /\ call.verb = "rijden"
  /\ call.tense = "v.t.t." /\ call.pronoun = "zij/ze"
  /\ ret.kind = "ok" /\ Len(ret.value.disp) = 2

\* the declared auxiliaries in order, each kept at its first occurrence only
RECURSIVE FirstOccurrences(_, _)
FirstOccurrences(xs, seen) ==
  IF Len(xs) = 0 THEN <<>>
  ELSE IF Head(xs) \in seen THEN FirstOccurrences(Tail(xs), seen)
       ELSE <<Head(xs)>> \o FirstOccurrences(Tail(xs), seen \cup {Head(xs)})

\* C7: in a perfect-tense answer list the auxiliary is conjugated in the
\* governing simple tense for the pronoun, the phrases come in the order in
\* which the verb declares its auxiliaries, and of equal phrases the first is kept.
PerfectPhrasesOrder ==
  (call.fn = "build_expected_answers" /\ call.tense \in PERFECT_TENSES /\ Returned)
    => /\ ret.kind = "ok"
       /\ LET order == FirstOccurrences(Declared(call.aux), {})
          IN /\ Len(ret.value.disp) = Len(order)
             /\ \A n \in 1..Len(order) :
                  ret.value.disp[n]
                    = Phrase(order[n], call.verb, call.tense, call.pronoun)

PerfectPhrasesOrderWitness ==
  /\ call.fn = "build_expected_answers" /\ call.verb = "lopen"
  /\ call.aux = [list |-> <<"zijn", "zijn">>]
  /\ call.tense = "v.v.t." /\ call.pronoun = "ik"
  /\ ret.kind = "ok" /\ ret.value.disp = <<"was gelopen">>

\* C9: _pick_aux returns the only auxiliary of a verb that declares one (as a
\* bare string or as a one-element list); for a verb that declares two it
\* returns zijn for a canonical zijn-verb and hebben otherwise; what it returns
\* is always an auxiliary the verb declares.
PickAuxContract ==
  (call.fn = "_pick_aux" /\ Returned)
    => /\ ret.kind = "ok"
       /\ LET declared == Elems(Declared(call.aux))
          IN /\ Cardinality(declared) = 1 => ret.value \in declared
             /\ Cardinality(declared) = 2 =>
                  ret.value = IF call.verb \in CANONICAL_ZIJN THEN "zijn" ELSE "hebben"
             /\ ret.value \in declared

\* C10: for each of the 4 tenses list_templates_for_tense returns exactly the
\* templates of SENTENCE_TEMPLATES with that tense, in table order, at least one.
TemplatesForTense ==
  (call.fn = "list_templates_for_tense" /\ Returned)
    => LET rows == {n \in 1..Len(SENTENCE_TEMPLATES) :
                       SENTENCE_TEMPLATES[n].tense = call.tense}
           Nth(k) == CHOOSE n \in rows : Cardinality({m \in rows : m < n}) = k - 1
       IN /\ ret.kind = "ok"
          /\ Len(ret.value) = Cardinality(rows)
          /\ Len(ret.value) > 0
          /\ \A k \in 1..Len(ret.value) : ret.value[k] = SENTENCE_TEMPLATES[Nth(k)]

TemplatesForTenseWitness ==
  /\ call.fn = "list_templates_for_tense" /\ call.tense = "v.v.t."
  /\ ret.kind = "ok" /\ Len(ret.value) = 8 /\ ret.value[8].id = "vvt_8"

-----------------------------------------------------------------------------
(* Properties of normalisation and grading *)

\* C1: normalize_answer is idempotent on strings of letters of both cases,
\* whitespace and punctuation marks.
NormalizeIdempotent ==
  (call.fn = "normalize_answer" /\ ret2.kind = "ok") => ret2.value = ret.value

Graded == call.fn = "ask_question" /\ ret2.kind = "ok"

\* C2: a candidate answer typed with other letter case, whitespace around it and
\* punctuation marks after it (also with whitespace before the marks) normalizes
\* to the same string as the candidate and is graded correct.
MatchingInsensitive ==
  (Graded /\ ret2.value.from # None)
    => /\ normalize_answer(ret2.value.line) = normalize_answer(ret2.value.from)
       /\ ret2.value.result.correct

\* C3: ask_question returns True exactly when the normalized raw answer is an
\* element of the question's expected_answers, at whatever position.
GradingIsMembership ==
  Graded
    => (ret2.value.result.correct
          <=> \E n \in 1..Len(ret.value.expected_answers) :
                ret.value.expected_answers[n] = normalize_answer(ret2.value.line))

GradingIsMembershipWitness ==
  /\ Graded /\ ret.value.verb_infinitive = "lopen" /\ ret.value.tense = "v.t.t."
  /\ Len(ret.value.expected_answers) = 2
  /\ ret2.value.line = " \tBEN GELOPEN.? \t"
  /\ normalize_answer(ret2.value.line) = ret.value.expected_answers[2]
  /\ ret2.value.result.correct

\* C8: for every verb of VERBS, every perfect tense and every pronoun the answer
\* lists of the question hold one phrase for every auxiliary the verb declares,
\* whatever _pick_aux returns, and each of these phrases is graded correct.
AllAuxiliariesAccepted ==
  (call.fn = "ask_question" /\ call.tense \in PERFECT_TENSES /\ Returned)
    => /\ ret.kind = "ok"
       /\ LET verb == ret.value.verb_infinitive
              phrases == {Phrase(a, verb, call.tense, call.pronoun) :
                            a \in Elems(Declared(VERBS[verb].aux))}
          IN /\ verb = VERBS_KEYS[call.vi]
             /\ \A p \in phrases :
                  /\ p \in Elems(ret.value.display_answers)
                  /\ p \in Elems(ret.value.expected_answers)
             /\ (ret2.kind = "ok" /\ ret2.value.line \in phrases)
                  => ret2.value.result.correct

AllAuxiliariesAcceptedWitness ==
  /\ Graded /\ ret.value.verb_infinitive = "rijden" /\ call.tense = "v.v.t."
  /\ call.pronoun = "jullie" /\ ret2.value.line = "waren gereden"
  /\ _pick_aux(VERBS["rijden"]) = Ok("hebben")
  /\ ret2.value.result.correct

-----------------------------------------------------------------------------
(* Properties of the templates and of question building *)

Picked == call.fn = "pick_question" /\ ret.kind = "ok"

NoDuplicates(seq) ==
  \A m, n \in 1..Len(seq) : seq[m] = seq[n] => m = n

\* C11: every template of SENTENCE_TEMPLATES that has an allowed_verbs list has
\* a non-empty one, and every infinitive in it is a key of VERBS.
AllowedVerbsKnown ==
  (call.fn = "list_templates_for_tense" /\ Returned)
    => \A n \in 1..Len(SENTENCE_TEMPLATES) :
         LET t == SENTENCE_TEMPLATES[n]
         IN "allowed_verbs" \in DOMAIN t
              => /\ Len(t.allowed_verbs) > 0
                 /\ \A m \in 1..Len(t.allowed_verbs) :
                      /\ t.allowed_verbs[m] \in DOMAIN VERBS
                      /\ t.allowed_verbs[m] \in Elems(VERBS_KEYS)

AllowedVerbsKnownWitness ==
  /\ call.fn = "list_templates_for_tense" /\ call.tense = "o.t.t."
  /\ ret.kind = "ok"
  /\ \E n \in 1..Len(ret.value) :
       /\ "allowed_verbs" \in DOMAIN ret.value[n]
       /\ Len(ret.value[n].allowed_verbs) = 4
       /\ ret.value[n].allowed_verbs[4] = "fietsen"

\* C12: for every tense and every outcome of the two random choices, the
\* Question pick_question returns uses a template of the requested tense, has
\* that template's pronoun, and has a verb out of the template's allowed_verbs
\* when that list is non-empty and a key of VERBS otherwise.
PickedFromTemplate ==
  Picked
    => LET templates == TemplateTable(call)
       IN \E n \in 1..Len(templates) :
            LET t == templates[n]
            IN /\ t.id = ret.value.template_id
               /\ t.tense = call.tense
               /\ ret.value.tense = call.tense
               /\ ret.value.pronoun = t.pronoun
               /\ IF "allowed_verbs" \in DOMAIN t /\ Len(t.allowed_verbs) > 0
                  THEN ret.value.verb_infinitive \in Elems(t.allowed_verbs)
                  ELSE ret.value.verb_infinitive \in DOMAIN VERBS

PickedFromTemplateWitness ==
  /\ Picked /\ call.table = "shipped" /\ call.tense = "o.v.t."
  /\ ret.value.template_id = "ovt_1" /\ ret.value.verb_infinitive = "fietsen"

\* C13: for a simple tense the Question has exactly one expected answer and one
\* display answer, both the string get_finite_form returns for the chosen verb,
\* the tense and the template's pronoun.
SimpleTenseSingleAnswer ==
  (Picked /\ call.tense \in SIMPLE_TENSES)
    => /\ Len(ret.value.expected_answers) = 1
       /\ Len(ret.value.display_answers) = 1
       /\ ret.value.expected_answers[1] = ret.value.display_answers[1]
       /\ get_finite_form(VerbTable(call), ret.value.verb_infinitive, call.tense,
                          ret.value.pronoun)
            = Ok(ret.value.display_answers[1])

SimpleTenseSingleAnswerWitness ==
  /\ Picked /\ call.table = "free" /\ call.tense = "o.t.t."
  /\ ret.value.verb_infinitive = "opstaan" /\ ret.value.pronoun = "ik"
  /\ ret.value.expected_answers = <<"sta">>

\* C14: in every Question pick_question produces expected_answers and
\* display_answers have the same length and order, expected_answers[n] is
\* normalize_answer(display_answers[n]), and expected_answers has no duplicate.
AnswerListsParallel ==
  Picked
    => /\ Len(ret.value.expected_answers) = Len(ret.value.display_answers)
       /\ \A n \in 1..Len(ret.value.expected_answers) :
            ret.value.expected_answers[n]
              = normalize_answer(ret.value.display_answers[n])
       /\ NoDuplicates(ret.value.expected_answers)

AnswerListsParallelWitness ==
  /\ Picked /\ call.table = "shipped" /\ call.tense = "v.t.t."
  /\ ret.value.verb_infinitive = "rijden"
  /\ Len(ret.value.expected_answers) = 2
  /\ ret.value.expected_answers[1] # ret.value.expected_answers[2]

\* C15: when the template list of the requested tense is empty, pick_question
\* fails with the error NoTemplateForTense and produces no Question.
EmptyTemplateListSignalled ==
  (call.fn = "pick_question" /\ call.table = "without_tense" /\ Returned)
    => ret = Raise("NoTemplateForTense")

\* C16: for lopen, v.t.t. and ik the answer list is "heb gelopen", "ben gelopen"
\* in that order, and the raw input "Ben gelopen." is graded correct.
LopenBothAuxiliaries ==
  (call.fn = "ask_question" /\ VERBS_KEYS[call.vi] = "lopen"
     /\ call.tense = "v.t.t." /\ call.pronoun = "ik" /\ Returned)
    => /\ ret.kind = "ok"
       /\ ret.value.verb_infinitive = "lopen"
       /\ ret.value.display_answers = <<"heb gelopen", "ben gelopen">>
       /\ ret.value.expected_answers = <<"heb gelopen", "ben gelopen">>
       /\ (ret2.kind = "ok" /\ ret2.value.line = "Ben gelopen.")
            => ret2.value.result.correct

LopenBothAuxiliariesWitness ==
  /\ Graded /\ ret.value.verb_infinitive = "lopen" /\ call.tense = "v.t.t."
  /\ call.pronoun = "ik" /\ ret2.value.line = "Ben gelopen."
  /\ ret2.value.result.correct

WhitespaceOnly(s) == \A n \in 1..Len(s) : Char(s, n) \in WHITESPACE

\* C17: a raw answer of whitespace only normalizes to the empty string and is
\* graded incorrect for every Question built from VERBS; no expected answer is
\* the empty string.
WhitespaceAnswerIncorrect ==
  /\ (call.fn = "ask_question" /\ ret.kind = "ok")
       => "" \notin Elems(ret.value.expected_answers)
  /\ (Graded /\ WhitespaceOnly(ret2.value.line))
       => /\ normalize_answer(ret2.value.line) = ""
          /\ ~ret2.value.result.correct

WhitespaceAnswerIncorrectWitness ==
  /\ Graded /\ ret2.value.line = " \t " /\ ~ret2.value.result.correct
  /\ ret.value.verb_infinitive = "zijn" /\ call.tense = "o.v.t."

\* line ends with the string s
EndsWith(line, s) ==
  Len(s) <= Len(line) /\ SubSeq(line, Len(line) - Len(s) + 1, Len(line)) = s

\* what ask_question printed after it read the answer
ShownAfterAnswer(result) == SubSeq(result.printed, 6, Len(result.printed))

\* C19: on an incorrect answer ask_question shows every entry of
\* display_answers verbatim and in order, on a correct answer it shows none of
\* them, and the question's explanation is shown in the round.
IncorrectShowsAnswers ==
  Graded
    => LET result == ret2.value.result
           shown == ShownAfterAnswer(result)
           answers == ret.value.display_answers
       IN /\ \E k \in 1..Len(result.printed) :
               EndsWith(result.printed[k], ret.value.explanation)
          /\ ~result.correct
               => \E first \in 1..Len(shown) :
                    \A n \in 1..Len(answers) :
                      /\ first + n - 1 <= Len(shown)
                      /\ EndsWith(shown[first + n - 1], answers[n])
          /\ result.correct
               => \A k \in 1..Len(shown) : \A n \in 1..Len(answers) :
                    ~EndsWith(shown[k], answers[n])

IncorrectShowsAnswersWitness ==
  /\ Graded /\ ~ret2.value.result.correct
  /\ ret.value.display_answers = <<"had gereden", "was gereden">>
  /\ LET shown == ShownAfterAnswer(ret2.value.result)
     IN /\ Len(shown) = 5
        /\ shown[3] = " - had gereden" /\ shown[4] = " - was gereden"

-----------------------------------------------------------------------------
(* Properties of the session *)

\* C18: no step of a session changes the tables VERBS, AUX_CONJUGATION, TENSES
\* and SENTENCE_TEMPLATES, and the step that grades a Question leaves its
\* expected_answers and display_answers as they were.
TablesAndQuestionKept ==
  [][/\ tables' = tables
     /\ graded' # graded
          => /\ q'.expected_answers = q.expected_answers
             /\ q'.display_answers = q.display_answers]_vars

TablesAndQuestionKeptWitness ==
  /\ pc = "loop" /\ asked = 2 /\ graded = 2 /\ correct_count = 1
  /\ tables = ShippedTables
  /\ q.verb_infinitive = "rijden" /\ Len(q.expected_answers) = 2

\* the errors a defect of the tables raises in pick_question
DataErrors == {"KeyError", "IndexError", "AssertionError"}

\* C21: an error a defect of the tables raises while a question is picked ends
\* the session: it is not caught, no step follows it, so no further question is
\* asked and the result is not printed.
DataErrorFatal ==
  [][/\ pc # "crashed"
     /\ exc' \in DataErrors
          => /\ pc = "loop" /\ pc' = "crashed"
             /\ rc' = None /\ asked' = asked /\ graded' = graded /\ q' = q
             /\ stdout' = stdout]_vars

DataErrorFatalWitness ==
  /\ pc = "crashed" /\ exc = "KeyError" /\ asked = 1 /\ graded = 1 /\ total = 2
  /\ rc = None

\* C22: with the shipped tables pick_question raises no error: for each tense
\* and every outcome of the template choice and the verb choice it returns a
\* Question with at least one expected answer, for a verb of VERBS.
ShippedPickTotal ==
  (call.fn = "pick_question" /\ call.table = "shipped" /\ Returned)
    => /\ ret.kind = "ok"
       /\ Len(ret.value.expected_answers) >= 1
       /\ ret.value.verb_infinitive \in DOMAIN VERBS
       /\ call.tense \in PERFECT_TENSES
            => TENSES[call.tense].aux_time \in SIMPLE_TENSES

ShippedPickTotalWitness ==
  /\ call.fn = "pick_question" /\ call.table = "shipped" /\ call.tense = "v.v.t."
  /\ ret.kind = "ok" /\ ret.value.template_id = "vvt_8"
  /\ Len(ret.value.expected_answers) >= 1

\* C23: for every verb of VERBS, every pronoun and both perfect tenses
\* get_finite_form returns "<auxiliary form> <past participle>" with the
\* auxiliary _pick_aux chooses, conjugated in the governing tense, and this
\* phrase is one of the display answers build_expected_answers returns for the
\* same arguments.
FinitePhraseAmongAnswers ==
  (call.fn = "get_finite_form" /\ call.tense \in PERFECT_TENSES /\ Shipped
     /\ Returned)
    => /\ ret.kind = "ok"
       /\ _pick_aux(VERBS[call.verb]).kind = "ok"
       /\ ret.value = Phrase(_pick_aux(VERBS[call.verb]).value, call.verb,
                             call.tense, call.pronoun)
       /\ ret2.kind # "pending"
            => /\ ret2.kind = "ok"
               /\ ret.value \in Elems(ret2.value.disp)

FinitePhraseAmongAnswersWitness ==
  /\ call.fn = "get_finite_form" /\ call.verb = "rijden" /\ call.tense = "v.v.t."
  /\ call.pronoun = "wij/we" /\ ret = Ok("hadden gereden")
  /\ ret2.kind = "ok" /\ ret2.value.disp = <<"hadden gereden", "waren gereden">>

\* C24: for every template, also one without allowed_verbs and one whose
\* allowed_verbs is empty, list_verbs_for_template returns the set of verbs
\* pick_question draws the verb from.
EligibleVerbsAgree ==
  (call.fn = "list_verbs_for_template" /\ Returned)
    => /\ ret.kind = "ok"
       /\ Elems(ret.value) = Elems(eligible_verbs(call.template))

-----------------------------------------------------------------------------
(* Properties of the session counters and of the exit code *)

\* run_session has not been left by an exception
SessionAlive == pc # "crashed"

\* C25: while run_session runs, 0 <= correct_count <= asked <= total; asked is
\* the number of the question presented last; asked exceeds the number of
\* graded answers by at most 1, and by 1 only while a question awaits its answer
\* or after an interrupt during it.
CountersOrdered ==
  /\ [](SessionAlive
          => /\ 0 <= correct_count /\ correct_count <= graded
             /\ graded <= asked /\ asked <= total
             /\ asked - graded <= 1
             /\ pc = "loop" => (asked = graded /\ asked = i - 1)
             /\ pc = "answer"
                  => /\ asked = graded + 1 /\ asked = i
                     /\ stdout[2] = "[" \o ToString(asked) \o "/" \o ToString(total)
                                      \o "] " \o q.explanation)
  /\ [][(SessionAlive' /\ asked' = graded' + 1 /\ pc' # "answer")
          => \/ pc = "answer" /\ pc' = "result"
                 /\ stdout' = <<"", "Onderbroken door gebruiker.">>
             \/ pc # "answer" /\ asked = graded + 1]_vars

CountersOrderedWitness ==
  /\ pc = "exited" /\ rc = 0 /\ total = 2 /\ asked = 2 /\ graded = 1
  /\ correct_count = 1

\* C26: if every prompt receives a line and no interrupt arrives, run_session
\* ends after exactly total rounds, each graded before the next question is
\* picked, and prints the result with asked = total.
SessionCompletes ==
  /\ [][pc' = "answer" => (graded = asked /\ asked' = asked + 1)]_vars
  /\ <>(/\ pc = "exited" /\ rc = 0 /\ total >= 1
        /\ asked = total /\ graded = total
        /\ stdout[2] = "Resultaat"
        /\ stdout[4] = "Goed: " \o ToString(correct_count) \o " / " \o ToString(total))

SessionCompletesWitness ==
  /\ pc = "exited" /\ rc = 0 /\ total = 2 /\ asked = 2 /\ graded = 2
  /\ correct_count = 1 /\ stdout[4] = "Goed: 1 / 2"

\* line begins with the string s
StartsWith(line, s) == Len(s) <= Len(line) /\ SubSeq(line, 1, Len(s)) = s

\* C27: a KeyboardInterrupt in the question loop is caught: no further question
\* is asked, the result is printed with the counts reached, the question that
\* awaited its answer counts in asked and not in correct_count, and the
\* percentage is printed only when asked > 0.
InterruptCaught ==
  [][/\ (pc \in {"loop", "answer"} /\ stdout' = <<"", "Onderbroken door gebruiker.">>)
          => /\ pc' = "result" /\ rc' = None /\ exc' = None
             /\ asked' = asked /\ correct_count' = correct_count
             /\ graded' = graded
             /\ pc = "answer" => (asked = graded + 1 /\ correct_count <= graded)
     /\ pc = "result" => (pc' = "exited" /\ asked' = asked)
     /\ (pc = "result" /\ rc' = 0)
          => /\ stdout'[4] = "Goed: " \o ToString(correct_count) \o " / "
                               \o ToString(asked)
             /\ asked > 0 => StartsWith(stdout'[5], "Score: ")
             /\ asked = 0 => \A n \in 1..Len(stdout') : ~StartsWith(stdout'[n], "Score")]_vars

InterruptCaughtWitness ==
  /\ pc = "exited" /\ rc = 0 /\ total = 2 /\ asked = 1 /\ graded = 0
  /\ stdout[4] = "Goed: 0 / 1" /\ stdout[5] = "Score: 0.0%"

\* C28: main returns 0 whenever run_session returns, also after an interrupt
\* inside the question loop; 130 only for an interrupt at the tense prompt, at
\* the count prompt or while the result is printed, and then without the
\* result; 1 only when the import fails.
ExitCodes ==
  [][/\ pc' = "exited"
          => \/ rc' = 0 /\ pc = "result" /\ stdout' = result_lines(correct_count, asked)
             \/ /\ rc' = 130 /\ pc \in {"select_tenses", "ask_total", "result"}
                /\ stdout' = <<"", "Afgebroken.">>
             \/ rc' = 1 /\ pc = "import"
     /\ pc' # "exited" => rc' = None
     /\ pc \in {"loop", "answer"} => pc' # "exited"]_vars

ExitCodesWitness ==
  /\ pc = "exited" /\ rc = 0 /\ total = 2 /\ asked = 0 /\ graded = 0
  /\ stdout[4] = "Goed: 0 / 0" /\ Len(stdout) = 6


\* the tenses for the numbers typed: those of the numbers within 1..4, in the
\* order typed, and all four when there is none
TensesFor(nums) ==
  LET all_four == <<"o.t.t.", "o.v.t.", "v.t.t.", "v.v.t.">>
      in_range == SelectSeq(nums, LAMBDA n : n \in 1..4)
  IN IF Len(in_range) = 0 THEN all_four
     ELSE [k \in 1..Len(in_range) |-> all_four[in_range[k]]]

\* C29: select_tenses_interactive returns a non-empty list of tense codes: all
\* four in the order o.t.t., o.v.t., v.t.t., v.v.t. when the line is empty or
\* holds no number within 1..4, otherwise the tenses of the numbers within 1..4
\* in the order typed, duplicates kept; a question picked in the loop has a
\* tense of that list.
TensesChosen ==
  (call.fn = "select_tenses_interactive" /\ ret # Pending)
    => /\ ret.value = TensesFor(call.nums)
       /\ Len(ret.value) > 0
       /\ Elems(ret.value) \subseteq {"o.t.t.", "o.v.t.", "v.t.t.", "v.v.t."}
       /\ ret2 # Pending
            => /\ ret2.kind = "picked"
               /\ ret2.tense \in Elems(ret.value)
               /\ ret2.question.kind = "ok"
               /\ ret2.question.value.tense = ret2.tense

TensesChosenWitness ==
  /\ call.fn = "select_tenses_interactive"
  /\ call.nums = <<4, 12, 4>> /\ call.line = " 4 en 12 en 4 "
  /\ ret = Ok(<<"v.v.t.", "v.v.t.">>)
  /\ ret2.kind = "picked" /\ ret2.question.kind = "ok"
  /\ ret2.question.value.tense = "v.v.t."

\* C30: ask_int returns the number typed when it is an integer within
\* [min_value, max_value], and default for an empty line, a line that is no
\* integer and a number out of range; with the arguments of run_session the
\* result lies within 1..500.
CountAccepted ==
  (call.fn = "ask_int" /\ ret # Pending)
    => LET p == call.params
           accepted == /\ call.typed.kind = "ok"
                       /\ call.typed.value >= p.min_value
                       /\ call.typed.value <= p.max_value
       IN /\ ret.value = IF accepted THEN call.typed.value ELSE p.default
          /\ p = [default |-> 10, min_value |-> 1, max_value |-> 500]
               => ret.value \in 1..500

CountAcceptedWitness ==
  /\ call.fn = "ask_int"
  /\ call.params = [default |-> 10, min_value |-> 1, max_value |-> 500]
  /\ \/ call.line = "+501" /\ ret = Ok(10)
     \/ call.line = "  500 " /\ ret = Ok(500)
====
